---- MODULE Spec2Model ----
(***************************************************************************)
(* A model of the ponswarp-desktop transfer core (src-tauri/src):          *)
(*   grid/scheduler.rs      Scheduler (frequency map, request generation)  *)
(*   grid/piece_manager.rs  PieceManager (verify, write_piece, pending)    *)
(*   grid/peer.rs           Peer session task                              *)
(*   grid/swarm.rs          GridSwarm (event loop, dispatch)               *)
(*   transfer/multistream.rs MultiStreamSender block tasks                 *)
(*   bootstrap/service.rs   EmbeddedBootstrapService lifecycle             *)
(* Each subsystem has its own specification over its own variables; the    *)
(* variables of the other subsystems stay at their initial values.         *)
(***************************************************************************)
EXTENDS Integers, Sequences, FiniteSets, TLC

(***************************************************************************)
(* Bounds of the model (not program constants).                            *)
(***************************************************************************)
\* number of piece indices the environment talks about
NPieces == 2
\* cap on a piece_frequency entry reached by repeated Have messages
MaxFreq == 2
\* largest max_requests argument tried on generate_requests
MaxK == 2
\* largest number of blocks a sent file splits into
MaxBlocks == 2
\* largest number of pieces of a shared file
MaxPieces == 2
\* piece_size of the shared file's metadata, in bytes
PieceSize == 2
\* length of the shared file's last piece, in bytes
LastPieceLen == 1
\* number of messages remote peer M sends
MaxMsgs == 2
\* number of bootstrap service instances on the host
NInst == 2
\* number of block streams one receive_file call accepts
MaxStreams == 2
\* largest length, in bytes, of the file a HighPerformanceFileSender reads
MaxFileLen == 3
\* number of messages a peer's send stream holds before the remote reads
MaxOut == 2
\* number of free slots of a k-bucket or provider list at the start
MaxFree == 1
\* the last instant of the clock, in seconds
MaxNow == 600
\* number of records a list without a cap is followed past 100
MaxOver == 2
\* number of keep-alive ticks a peer session is followed through without an
\* inbound message
MaxSilentTicks == 4
\* number of peer tasks the swarm starts
MaxTasks == 2
\* the last instant of the clock of a DHT node with provider lists, in seconds
MaxJanUptime == 4500
\* the last instant of the clock of hybrid discovery, in seconds
MaxHybUptime == 600
\* number of pieces of the largest Bitfield
MaxBits == 9
\* number of datagrams a DHT node receives
MaxDatagrams == 2
\* the last instant of a DHT node's clock, in seconds
MaxUptime == 1050

(***************************************************************************)
(* Program constants.                                                      *)
(***************************************************************************)
\* scheduler.rs:63  endgame_threshold: 10
EndgameThreshold == 10
\* scheduler.rs:213  std::cmp::min(sorted.len(), 10)
RarestWindow == 10
\* multistream.rs:25  pub const MAX_CONCURRENT_STREAMS: usize = 32
MAX_CONCURRENT_STREAMS == 32
\* multistream.rs:331  const MIN_BLOCK: u64 = 256 * 1024
MIN_BLOCK == 256 * 1024
\* multistream.rs:332  const MAX_BLOCK: u64 = 16 * 1024 * 1024
MAX_BLOCK == 16 * 1024 * 1024
\* multistream.rs:333  const TARGET_PARTS: u64 = 100
TARGET_PARTS == 100
\* swarm.rs:113  1000 (the piece count GridSwarm::new gives its Scheduler)
DefaultTotalPieces == 1000
\* swarm.rs:130  Semaphore::new(50)
MaxPeers == 50
\* swarm.rs:498  self.scheduler.generate_requests(16)
MaxRequestsPerTick == 16
\* config.rs:28  dht_port: 6881
DefaultDhtPort == 6881
\* config.rs:29  quic_port: 6882
DefaultQuicPort == 6882
\* config.rs:30  stats_port: 6883
DefaultStatsPort == 6883
\* service.rs:227  for offset in 1..=10
PortFallbackRange == 10
\* config.rs:34  max_relay_sessions: 50
DefaultMaxRelaySessions == 50
\* config.rs:55  if self.max_relay_sessions > 1000
MaxRelaySessionsLimit == 1000
\* grid/dht.rs:217  KBucket::new(20)
KBucketCapacity == 20
\* bootstrap/dht.rs:367  if bucket.len() < 20
BootBucketCapacity == 20
\* grid/dht.rs:95  Duration::from_secs(300)
ReplaceAge == 300
\* the seconds between two looks at the clock
TimeStep == 150
\* bootstrap/dht.rs:437  if providers.len() > 100
ProviderCap == 100
\* peer.rs:223  interval(Duration::from_secs(30))
KeepaliveSecs == 30
\* bootstrap/dht.rs:485  Duration::from_secs(3600)
ProviderAge == 3600
\* hybrid_discovery.rs:264  Duration::from_secs(300)
HybTimeout == 300
\* bootstrap/service.rs:316  mpsc::channel(100)
ChannelCap == 100
\* bootstrap/dht.rs:472  Duration::from_secs(900)
StaleAge == 900

VARIABLES
    sch,        \* a Scheduler object driven directly through its methods
    genCall,    \* the last generate_requests call on sch: its argument and result
    svc,        \* the EmbeddedBootstrapService object
    svcPc,      \* where the start()/stop() call in progress stands ("idle": none)
    svcRet,     \* the last call on the service and what it returned
    snd,        \* one MultiStreamSender::send_file call: shared counters, result
    task,       \* the block tasks send_file spawned, by block number
    pmo,        \* a PieceManager object driven directly through its methods
    pmFile,     \* the file at pmo's save path
    pmRet,      \* the last call on pmo: its arguments and whether it returned Ok
    pm,         \* the PieceManager shared by the GridSwarm and its peer tasks
    disk,       \* the file at pm's save path
    sw,         \* the GridSwarm object, and counts of the SwarmEvents it emitted
    sess,       \* the peer task of each remote address
    evq,        \* the peer event channel from the peer tasks to the swarm
    net,        \* the remote peers: Requests that reached them, what they sent
    host,       \* the host's bound TCP and UDP ports
    inst,       \* the bootstrap service instances on the host, as far as ports go
    app,        \* AppState.embedded_bootstrap and the last bootstrap command
    rcv,        \* one MultiStreamReceiver::receive_file call
    rdr,        \* a HighPerformanceFileSender, its file, its last read_block_owned
    conn,       \* the GridSwarm's connection permits and running peer tasks, counted
    peer,       \* one Peer: its PeerState flags, its send stream, its last step
    kb,         \* one k-bucket of a DHT routing table, and the clock
    prov,       \* the provider list of one info-hash in a DHT store, and the clock
    dstat,      \* a bootstrap DhtNode: its stats counters, routing entries, clock
    tab,        \* grid/swarm.rs: the connection table, its permits and peer tasks
    jan,        \* bootstrap/dht.rs, grid/dht.rs: a DHT node's table, providers and clock
    hyb,        \* grid/hybrid_discovery.rs: the peer cache, its clock and last events
    dq,         \* bootstrap/dht.rs: the run loop and the PeerDiscovered channel
    bf          \* grid/bitfield.rs: a Bitfield and the operation that made it

schedVars == <<sch, genCall>>
bootVars == <<svc, svcPc, svcRet>>
msVars == <<snd, task>>
pmVars == <<pmo, pmFile, pmRet>>
swarmVars == <<pm, disk, sw, sess, evq, net>>
hostVars == <<host, inst>>
vars == <<sch, genCall, svc, svcPc, svcRet, snd, task, pmo, pmFile, pmRet,
          pm, disk, sw, sess, evq, net, host, inst, app, rcv, rdr, conn, peer, kb, prov, dstat, tab, jan, hyb, dq, bf>>

\* the variables each subsystem leaves alone
coreVars == <<schedVars, bootVars, msVars, pmVars, swarmVars>>
auxVars == <<hostVars, app, rcv, rdr, conn, peer, kb, prov, dstat, tab, jan, hyb, dq, bf>>
nonSchedVars == <<bootVars, msVars, pmVars, swarmVars, auxVars>>
nonBootVars == <<schedVars, msVars, pmVars, swarmVars, auxVars>>
nonMsVars == <<schedVars, bootVars, pmVars, swarmVars, auxVars>>
nonPmVars == <<schedVars, bootVars, msVars, swarmVars, auxVars>>
nonSwarmVars == <<schedVars, bootVars, msVars, pmVars, auxVars>>
nonHostVars == <<coreVars, app, rcv, rdr, conn, peer, kb, prov, dstat, tab, jan, hyb, dq, bf>>
nonAppVars == <<coreVars, hostVars, rcv, rdr, conn, peer, kb, prov, dstat, tab, jan, hyb, dq, bf>>
nonRcvVars == <<coreVars, hostVars, app, rdr, conn, peer, kb, prov, dstat, tab, jan, hyb, dq, bf>>
nonRdVars == <<coreVars, hostVars, app, rcv, conn, peer, kb, prov, dstat, tab, jan, hyb, dq, bf>>
nonConnVars == <<coreVars, hostVars, app, rcv, rdr, peer, kb, prov, dstat, tab, jan, hyb, dq, bf>>
nonPeerVars == <<coreVars, hostVars, app, rcv, rdr, conn, kb, prov, dstat, tab, jan, hyb, dq, bf>>
nonKbVars == <<coreVars, hostVars, app, rcv, rdr, conn, peer, prov, dstat, tab, jan, hyb, dq, bf>>
nonProvVars == <<coreVars, hostVars, app, rcv, rdr, conn, peer, kb, dstat, tab, jan, hyb, dq, bf>>
nonDstVars == <<coreVars, hostVars, app, rcv, rdr, conn, peer, kb, prov, tab, jan, hyb, dq, bf>>
nonTabVars == <<coreVars, hostVars, app, rcv, rdr, conn, peer, kb, prov, dstat, jan, hyb, dq, bf>>
nonJanVars == <<coreVars, hostVars, app, rcv, rdr, conn, peer, kb, prov, dstat, tab, hyb, dq, bf>>
nonHybVars == <<coreVars, hostVars, app, rcv, rdr, conn, peer, kb, prov, dstat, tab, jan, dq, bf>>
nonDqVars == <<coreVars, hostVars, app, rcv, rdr, conn, peer, kb, prov, dstat, tab, jan, hyb, bf>>
nonBfVars == <<coreVars, hostVars, app, rcv, rdr, conn, peer, kb, prov, dstat, tab, jan, hyb, dq>>

\* the ports a default configuration names
ConfiguredPorts == {DefaultDhtPort, DefaultQuicPort, DefaultStatsPort}
\* the ports the OS hands out for a bind to port 0
OsPorts == {49152, 49153}
\* the service instances
Instances == 1..NInst

NoCall == [k |-> 0, result |-> <<>>, made |-> FALSE]

(***************************************************************************)
(* Helpers.                                                                *)
(***************************************************************************)
RECURSIVE Orderings(_)
\* every iteration order a HashMap/HashSet over the keys S may produce
Orderings(S) ==
    IF S = {} THEN {<<>>}
    ELSE UNION {{<<x>> \o o : o \in Orderings(S \ {x})} : x \in S}

Min(a, b) == IF a <= b THEN a ELSE b

SaturatingSub1(n) == IF n > 0 THEN n - 1 ELSE 0

(***************************************************************************)
(* grid/scheduler.rs : Scheduler                                           *)
(***************************************************************************)
\* Scheduler::update_mode
Scheduler_update_mode(s) ==
    LET remaining == s.total_pieces - Cardinality(s.my_pieces)
    IN [s EXCEPT !.mode =
            IF s.my_pieces = {} THEN "RandomFirst"
            ELSE IF remaining <= s.endgame_threshold THEN "Endgame"
            ELSE "RareFirst"]

\* Scheduler::new
Scheduler_new(total) ==
    [ total_pieces      |-> total,
      piece_frequency   |-> [i \in 0..(total - 1) |-> 0],
      my_pieces         |-> {},
      pending_pieces    |-> {},
      peer_pieces       |-> << >>,
      mode              |-> "RandomFirst",
      endgame_threshold |-> EndgameThreshold ]

\* the frequency vector with the entries of `pieces` decremented (saturating)
FreqSub(s, pieces) ==
    [i \in DOMAIN s.piece_frequency |->
        IF i \in pieces THEN SaturatingSub1(s.piece_frequency[i])
        ELSE s.piece_frequency[i]]

\* the frequency vector with the entries of `pieces` incremented
FreqAdd(freq, pieces) ==
    [i \in DOMAIN freq |-> IF i \in pieces THEN freq[i] + 1 ELSE freq[i]]

\* the peer table without peer p
DropPeer(pp, p) == [q \in (DOMAIN pp) \ {p} |-> pp[q]]

\* the peer table with p mapped to pieces
PutPeer(pp, p, pieces) ==
    [q \in (DOMAIN pp) \cup {p} |-> IF q = p THEN pieces ELSE pp[q]]

\* Scheduler::set_peer_bitfield
Scheduler_set_peer_bitfield(s, p, piece_indices) ==
    LET old   == IF p \in DOMAIN s.peer_pieces THEN s.peer_pieces[p] ELSE {}
        f1    == FreqSub(s, old)
        newPs == {i \in piece_indices : i < s.total_pieces}
        f2    == FreqAdd(f1, newPs)
    IN Scheduler_update_mode(
         [s EXCEPT !.piece_frequency = f2,
                   !.peer_pieces = PutPeer(s.peer_pieces, p, newPs)])

\* Scheduler::peer_has_piece with the increment applied only to a piece the
\* peer was not yet known to have
Scheduler_peer_has_piece_Dedup(s, p, i) ==
    IF i >= s.total_pieces THEN s
    ELSE LET old == IF p \in DOMAIN s.peer_pieces THEN s.peer_pieces[p] ELSE {}
         IN Scheduler_update_mode(
              [s EXCEPT !.piece_frequency =
                            IF i \in old THEN @ ELSE FreqAdd(@, {i}),
                        !.peer_pieces = PutPeer(s.peer_pieces, p, old \cup {i})])

\* Scheduler::peer_has_piece
Scheduler_peer_has_piece(s, p, i) ==
    IF i >= s.total_pieces THEN s
    ELSE LET old == IF p \in DOMAIN s.peer_pieces THEN s.peer_pieces[p] ELSE {}
         IN Scheduler_update_mode(
              [s EXCEPT !.piece_frequency = FreqAdd(@, {i}),
                        !.peer_pieces = PutPeer(s.peer_pieces, p, old \cup {i})])

\* Scheduler::remove_peer
Scheduler_remove_peer(s, p) ==
    IF p \in DOMAIN s.peer_pieces
    THEN Scheduler_update_mode(
           [s EXCEPT !.piece_frequency = FreqSub(s, s.peer_pieces[p]),
                     !.peer_pieces = DropPeer(s.peer_pieces, p)])
    ELSE Scheduler_update_mode(s)

\* Scheduler::mark_completed
Scheduler_mark_completed(s, i) ==
    Scheduler_update_mode(
      [s EXCEPT !.my_pieces = @ \cup {i}, !.pending_pieces = @ \ {i}])

\* Scheduler::mark_pending
Scheduler_mark_pending(s, i) == [s EXCEPT !.pending_pieces = @ \cup {i}]

\* Scheduler::unmark_pending
Scheduler_unmark_pending(s, i) == [s EXCEPT !.pending_pieces = @ \ {i}]

\* Scheduler::is_complete
Scheduler_is_complete(s) == Cardinality(s.my_pieces) = s.total_pieces

\* Scheduler::select_rarest: the values it may return ({} stands for None).
\* The candidates are sorted by frequency (a stable sort over an arbitrary
\* iteration order), the first min(len, 10) are kept and one is drawn at
\* random: c can be drawn iff fewer than 10 candidates are strictly rarer.
Scheduler_select_rarest(s, candidates) ==
    {c \in candidates :
        Cardinality({d \in candidates :
            s.piece_frequency[d] < s.piece_frequency[c]}) < RarestWindow}

\* the candidate filter of generate_requests without the used_pieces test
GenCandidates_NoUsed(s, p, used) ==
    {i \in s.peer_pieces[p] : i \notin s.my_pieces /\ i \notin s.pending_pieces}

\* the candidate filter of generate_requests (scheduler.rs:231-239)
GenCandidates(s, p, used) ==
    {i \in s.peer_pieces[p] :
        i \notin s.my_pieces /\ i \notin s.pending_pieces /\ i \notin used}

\* the priority of a request for piece i (scheduler.rs:242-246)
RequestPriority(s, i) ==
    IF s.piece_frequency[i] = 1 THEN 100
    ELSE 100 - Min(s.piece_frequency[i], 99)

PieceRequest(i, p, prio) == [piece_index |-> i, target_peer |-> p, priority |-> prio]

\* the loop guard of generate_requests without the max_requests test
GenLoopDone_NoLimit(order, requests, max_requests) == order = <<>>

\* the loop guard of generate_requests (scheduler.rs:225-228)
GenLoopDone(order, requests, max_requests) ==
    order = <<>> \/ Len(requests) >= max_requests

RECURSIVE GenLoop(_, _, _, _, _)
\* the per-peer loop of generate_requests over the peers in iteration order
\* `order`: the set of request lists it may build
GenLoop(s, order, max_requests, requests, used) ==
    IF GenLoopDone(order, requests, max_requests) THEN {requests}
    ELSE LET p     == Head(order)
             picks == Scheduler_select_rarest(s, GenCandidates(s, p, used))
         IN IF picks = {}
            THEN GenLoop(s, Tail(order), max_requests, requests, used)
            ELSE UNION {GenLoop(s, Tail(order), max_requests,
                                Append(requests,
                                       PieceRequest(i, p, RequestPriority(s, i))),
                                used \cup {i}) : i \in picks}

RECURSIVE InsertByPriority(_, _)
\* r inserted into the list sorted by descending priority, after its equals
InsertByPriority(sorted, r) ==
    IF sorted = <<>> THEN <<r>>
    ELSE IF Head(sorted).priority >= r.priority
         THEN <<Head(sorted)>> \o InsertByPriority(Tail(sorted), r)
         ELSE <<r>> \o sorted

RECURSIVE SortByPriority(_)
\* requests.sort_by(|a, b| b.priority.cmp(&a.priority)), a stable sort
SortByPriority(reqs) ==
    IF reqs = <<>> THEN <<>>
    ELSE InsertByPriority(SortByPriority(SubSeq(reqs, 1, Len(reqs) - 1)),
                          reqs[Len(reqs)])

\* Scheduler::generate_requests: the lists it may return
Scheduler_generate_requests(s, max_requests) ==
    {SortByPriority(r) :
        r \in UNION {GenLoop(s, o, max_requests, <<>>, {}) :
                        o \in Orderings(DOMAIN s.peer_pieces)}}

(***************************************************************************)
(* The Scheduler driven directly through its public methods.               *)
(***************************************************************************)
SchedPeerIds == {"peer1", "peer2"}

\* the length (in pieces) of the file the directly driven Scheduler is built
\* for: long enough for RareFirst to occur while some of the first NPieces
\* pieces are still missing
SchedTotal == EndgameThreshold + NPieces

\* the piece indices a caller passes: the first NPieces, and one out of range
SchedIndices(s) == (0..(NPieces - 1)) \cup {s.total_pieces}

SchedInit ==
    /\ sch = Scheduler_new(SchedTotal)
    /\ genCall = NoCall

\* the piece lists a caller passes to set_peer_bitfield: every set of valid
\* indices, and a list holding an index out of range
SchedBitfields(s) == (SUBSET (0..(NPieces - 1))) \cup {{s.total_pieces}}

SchedSetPeerBitfield ==
    \E p \in SchedPeerIds : \E ps \in SchedBitfields(sch) :
        /\ ~genCall.made
        /\ \A i \in ps : i < sch.total_pieces => sch.piece_frequency[i] < MaxFreq
        /\ sch' = Scheduler_set_peer_bitfield(sch, p, ps)
        /\ genCall' = NoCall
        /\ UNCHANGED nonSchedVars

SchedPeerHasPiece ==
    \E p \in SchedPeerIds : \E i \in SchedIndices(sch) :
        /\ ~genCall.made
        /\ i < sch.total_pieces => sch.piece_frequency[i] < MaxFreq
        /\ sch' = Scheduler_peer_has_piece(sch, p, i)
        /\ genCall' = NoCall
        /\ UNCHANGED nonSchedVars

SchedRemovePeer ==
    \E p \in SchedPeerIds :
        /\ ~genCall.made
        /\ sch' = Scheduler_remove_peer(sch, p)
        /\ genCall' = NoCall
        /\ UNCHANGED nonSchedVars

SchedMarkCompleted ==
    \E i \in 0..(NPieces - 1) :
        /\ ~genCall.made
        /\ sch' = Scheduler_mark_completed(sch, i)
        /\ genCall' = NoCall
        /\ UNCHANGED nonSchedVars

SchedMarkPending ==
    \E i \in 0..(NPieces - 1) :
        /\ ~genCall.made
        /\ sch' = Scheduler_mark_pending(sch, i)
        /\ genCall' = NoCall
        /\ UNCHANGED nonSchedVars

SchedUnmarkPending ==
    \E i \in 0..(NPieces - 1) :
        /\ ~genCall.made
        /\ sch' = Scheduler_unmark_pending(sch, i)
        /\ genCall' = NoCall
        /\ UNCHANGED nonSchedVars

SchedGenerateRequests ==
    \E k \in 0..MaxK : \E r \in Scheduler_generate_requests(sch, k) :
        /\ ~genCall.made
        /\ genCall' = [k |-> k, result |-> r, made |-> TRUE]
        /\ UNCHANGED sch
        /\ UNCHANGED nonSchedVars

\* the caller has looked at the list generate_requests returned
SchedReturn ==
    /\ genCall.made
    /\ genCall' = NoCall
    /\ UNCHANGED sch
    /\ UNCHANGED nonSchedVars

SchedNext ==
    \/ SchedSetPeerBitfield
    \/ SchedPeerHasPiece
    \/ SchedRemovePeer
    \/ SchedMarkCompleted
    \/ SchedMarkPending
    \/ SchedUnmarkPending
    \/ SchedGenerateRequests
    \/ SchedReturn

(***************************************************************************)
(* bootstrap/service.rs : EmbeddedBootstrapService                         *)
(* The service sits behind one lock (lib.rs: AppState.embedded_bootstrap), *)
(* so one call runs at a time; svcPc is the await point a start() or       *)
(* stop() in progress has reached.                                         *)
(***************************************************************************)
ServiceState(tag, msg) == [tag |-> tag, msg |-> msg]

\* impl Display for ServiceState
ServiceState_fmt(st) ==
    CASE st.tag = "Stopped"  -> "stopped"
      [] st.tag = "Starting" -> "starting"
      [] st.tag = "Running"  -> "running"
      [] st.tag = "Stopping" -> "stopping"
      [] st.tag = "Error" /\ st.msg = "start failed"  -> "error: start failed"
      [] st.tag = "Error" /\ st.msg = "start timeout" -> "error: start timeout"
      [] OTHER -> "error: stop failed"

\* the configurations a service is built with or updated to
BootConfigs ==
    [enable_relay : BOOLEAN, enable_mdns_discovery : BOOLEAN,
     enable_turn : BOOLEAN, has_external_bootstrap : BOOLEAN]

\* EmbeddedBootstrapService::new
Service_new(config) ==
    [ state              |-> ServiceState("Stopped", ""),
      config             |-> config,
      bound_ports        |-> FALSE,
      started_at         |-> FALSE,
      dht_handle         |-> FALSE,
      dht_task           |-> FALSE,
      relay_task         |-> FALSE,
      stats_task         |-> FALSE,
      mdns_task          |-> FALSE,
      peer_discovered_rx |-> FALSE,
      connected_bootstrap_nodes |-> 0,
      turn_client        |-> FALSE ]

\* EmbeddedBootstrapService::cleanup that leaves the DHT handle and the
\* bound ports in place
Service_cleanup_KeepHandle(s) ==
    [s EXCEPT !.dht_task = FALSE, !.relay_task = FALSE, !.stats_task = FALSE,
              !.mdns_task = FALSE, !.peer_discovered_rx = FALSE,
              !.connected_bootstrap_nodes = 0, !.turn_client = FALSE]

\* EmbeddedBootstrapService::cleanup
Service_cleanup(s) ==
    [s EXCEPT !.dht_task = FALSE, !.relay_task = FALSE, !.stats_task = FALSE,
              !.mdns_task = FALSE, !.dht_handle = FALSE, !.bound_ports = FALSE,
              !.peer_discovered_rx = FALSE, !.connected_bootstrap_nodes = 0,
              !.turn_client = FALSE]

\* EmbeddedBootstrapService::set_state
Service_set_state(s, tag, msg) == [s EXCEPT !.state = ServiceState(tag, msg)]

\* the guard of start() that refuses only a service that is up or in transit
StartRefused_ErrorRestarts(st) == st.tag \in {"Starting", "Running", "Stopping"}

\* the guard of start() (service.rs:268-270)
StartRefused(st) == st.tag # "Stopped"

\* the match arm of start() for an elapsed deadline that forgets set_state
Service_start_timed_out_NoState(s) == Service_cleanup(s)

\* the match arm of start() for an elapsed deadline (service.rs:291-297)
Service_start_timed_out(s) ==
    Service_cleanup(Service_set_state(s, "Error", "start timeout"))

\* the match arm of start() for a failed start_internal (service.rs:284-290)
Service_start_failed(s) ==
    Service_cleanup(Service_set_state(s, "Error", "start failed"))

\* the match arm of stop() for an elapsed deadline (service.rs:568-573)
Service_stop_timed_out(s) ==
    Service_set_state(Service_cleanup(s), "Stopped", "")

Ret(op, res, from) == [op |-> op, res |-> res, from |-> from, status |-> ""]

StartStages == {"start_ports", "start_turn", "start_dht", "start_relay",
                "start_stats", "start_mdns", "start_ext", "start_ok"}

\* the stages of start_internal at which it can return an error
StartCanFail(s, pc) ==
    \/ pc \in {"start_ports", "start_dht", "start_stats"}
    \/ pc = "start_turn" /\ s.config.enable_turn
    \/ pc = "start_relay" /\ s.config.enable_relay

\* the stages of start_internal that wait on I/O, where the deadline can pass
StartCanTimeOut(s, pc) ==
    \/ pc \in {"start_ports", "start_dht", "start_stats"}
    \/ pc = "start_turn" /\ s.config.enable_turn
    \/ pc = "start_relay" /\ s.config.enable_relay
    \/ pc = "start_mdns" /\ s.config.enable_mdns_discovery
    \/ pc = "start_ext" /\ s.config.has_external_bootstrap

BootInit ==
    /\ svc \in {Service_new(c) : c \in BootConfigs}
    /\ svcPc = "idle"
    /\ svcRet = Ret("new", "Ok", "Stopped")

\* config.rs BootstrapConfig::default()
DefaultBootConfig ==
    [enable_relay |-> TRUE, enable_mdns_discovery |-> TRUE,
     enable_turn |-> FALSE, has_external_bootstrap |-> FALSE]

\* a service built from the default configuration
BootIdle ==
    /\ svc = Service_new(DefaultBootConfig)
    /\ svcPc = "idle"
    /\ svcRet = Ret("new", "Ok", "Stopped")

\* start(): the state check and set_state(Starting)
Start ==
    /\ svcPc = "idle"
    /\ IF StartRefused(svc.state)
       THEN /\ svcRet' = Ret("start", "Err", svc.state.tag)
            /\ UNCHANGED <<svc, svcPc>>
       ELSE /\ svc' = Service_set_state(svc, "Starting", "")
            /\ svcPc' = "start_ports"
            /\ svcRet' = Ret("start", "pending", svc.state.tag)
    /\ UNCHANGED nonBootVars

\* start_internal: determine_ports, bound_ports = Some, stats.reset()
StartDeterminePorts ==
    /\ svcPc = "start_ports"
    /\ svc' = [svc EXCEPT !.bound_ports = TRUE]
    /\ svcPc' = "start_turn"
    /\ UNCHANGED <<svcRet, nonBootVars>>

\* start_internal: initialize_turn_ice
StartTurn ==
    /\ svcPc = "start_turn"
    /\ svc' = [svc EXCEPT !.turn_client = svc.config.enable_turn]
    /\ svcPc' = "start_dht"
    /\ UNCHANGED <<svcRet, nonBootVars>>

\* start_internal: the event channel, DhtNode::new, spawn of dht_node.run()
StartDht ==
    /\ svcPc = "start_dht"
    /\ svc' = [svc EXCEPT !.peer_discovered_rx = TRUE, !.dht_handle = TRUE,
                          !.dht_task = TRUE]
    /\ svcPc' = "start_relay"
    /\ UNCHANGED <<svcRet, nonBootVars>>

\* start_internal: RelayServer::new and its task, when enable_relay
StartRelay ==
    /\ svcPc = "start_relay"
    /\ svc' = [svc EXCEPT !.relay_task = svc.config.enable_relay]
    /\ svcPc' = "start_stats"
    /\ UNCHANGED <<svcRet, nonBootVars>>

\* start_internal: StatsServer::new and its task
StartStats ==
    /\ svcPc = "start_stats"
    /\ svc' = [svc EXCEPT !.stats_task = TRUE]
    /\ svcPc' = "start_mdns"
    /\ UNCHANGED <<svcRet, nonBootVars>>

\* start_internal: mDNS discovery, whose failures are only logged
StartMdns ==
    /\ svcPc = "start_mdns"
    /\ \E started \in BOOLEAN :
          svc' = [svc EXCEPT !.mdns_task = svc.config.enable_mdns_discovery /\ started]
    /\ svcPc' = "start_ext"
    /\ UNCHANGED <<svcRet, nonBootVars>>

\* start_internal: connect_to_bootstrap_nodes
StartExternal ==
    /\ svcPc = "start_ext"
    /\ \E n \in 0..1 :
          svc' = [svc EXCEPT !.connected_bootstrap_nodes =
                                IF svc.config.has_external_bootstrap THEN n ELSE 0]
    /\ svcPc' = "start_ok"
    /\ UNCHANGED <<svcRet, nonBootVars>>

\* start(): Ok(Ok(ports)) => set_state(Running), started_at, Ok(ports)
StartReturnOk ==
    /\ svcPc = "start_ok"
    /\ svc' = [Service_set_state(svc, "Running", "") EXCEPT !.started_at = TRUE]
    /\ svcPc' = "idle"
    /\ svcRet' = Ret("start", "Ok", svcRet.from)
    /\ UNCHANGED nonBootVars

\* start(): Ok(Err(e)) => set_state(Error), cleanup, Err
StartFail ==
    /\ svcPc \in StartStages
    /\ StartCanFail(svc, svcPc)
    /\ svc' = Service_start_failed(svc)
    /\ svcPc' = "idle"
    /\ svcRet' = Ret("start", "Err", svcRet.from)
    /\ UNCHANGED nonBootVars

\* start(): Err(_) of the 5 s timeout => set_state(Error), cleanup, Err
StartTimeout ==
    /\ svcPc \in StartStages
    /\ StartCanTimeOut(svc, svcPc)
    /\ svc' = Service_start_timed_out(svc)
    /\ svcPc' = "idle"
    /\ svcRet' = Ret("start", "Err", svcRet.from)
    /\ UNCHANGED nonBootVars

\* stop(): the state check and set_state(Stopping)
Stop ==
    /\ svcPc = "idle"
    /\ IF svc.state.tag = "Stopped"
       THEN /\ svcRet' = Ret("stop", "Ok", svc.state.tag)
            /\ UNCHANGED <<svc, svcPc>>
       ELSE /\ svc' = Service_set_state(svc, "Stopping", "")
            /\ svcPc' = "stop_shutdown"
            /\ svcRet' = Ret("stop", "pending", svc.state.tag)
    /\ UNCHANGED nonBootVars

\* stop(): stop_internal ran to its end (shutdown sent, cleanup) within 3 s
StopInternalDone ==
    /\ svcPc = "stop_shutdown"
    /\ svc' = Service_set_state(Service_cleanup(svc), "Stopped", "")
    /\ svcPc' = "idle"
    /\ svcRet' = Ret("stop", "Ok", svcRet.from)
    /\ UNCHANGED nonBootVars

\* stop(): dht_handle.shutdown() still waits on the command channel after 3 s
StopTimeout ==
    /\ svcPc = "stop_shutdown"
    /\ svc.dht_handle
    /\ svc' = Service_stop_timed_out(svc)
    /\ svcPc' = "idle"
    /\ svcRet' = Ret("stop", "Ok", svcRet.from)
    /\ UNCHANGED nonBootVars

\* get_status(): the state as a string, and the bound ports
GetStatus ==
    /\ svcPc = "idle"
    /\ svcRet' = [op |-> "get_status", res |-> svcRet.res,
                  from |-> IF svcRet.op = "start" THEN svcRet.from ELSE "-",
                  status |-> ServiceState_fmt(svc.state)]
    /\ UNCHANGED <<svc, svcPc, nonBootVars>>

\* update_config(new_config)
UpdateConfig ==
    /\ svcPc = "idle"
    /\ \E c \in BootConfigs :
          /\ c # svc.config
          /\ svc' = [svc EXCEPT !.config = c]
    /\ svcRet' = Ret("update_config", "Ok", svc.state.tag)
    /\ UNCHANGED <<svcPc, nonBootVars>>

BootNext ==
    \/ Start
    \/ StartDeterminePorts
    \/ StartTurn
    \/ StartDht
    \/ StartRelay
    \/ StartStats
    \/ StartMdns
    \/ StartExternal
    \/ StartReturnOk
    \/ StartFail
    \/ StartTimeout
    \/ Stop
    \/ StopInternalDone
    \/ StopTimeout
    \/ GetStatus
    \/ UpdateConfig

\* a start() or stop() in progress moves on: every await of start_internal
\* and stop_internal completes, fails, or is cut off by the timeout around it
BootProgress ==
    \/ StartDeterminePorts
    \/ StartTurn
    \/ StartDht
    \/ StartRelay
    \/ StartStats
    \/ StartMdns
    \/ StartExternal
    \/ StartReturnOk
    \/ StartFail
    \/ StartTimeout
    \/ StopInternalDone
    \/ StopTimeout

(***************************************************************************)
(* bootstrap/service.rs : find_available_port, determine_ports, and the    *)
(* sockets start_internal opens (dht.rs DhtNode::new, relay.rs             *)
(* RelayServer::new, stats.rs StatsServer::new).                           *)
(* Service instances on one host.  The host keeps one table of bound TCP   *)
(* ports and one of bound UDP ports; a bind fails when the port is in the  *)
(* table of its protocol.  No deadline passes here and nothing fails but a *)
(* bind: BootSpec covers those outcomes.                                   *)
(***************************************************************************)
\* the ports the host's other programs hold, by protocol
HostTable(tcp, udp) == [tcp |-> tcp, udp |-> udp, ext_tcp |-> tcp, ext_udp |-> udp]

\* config.rs BootstrapConfig::default(), the fields start_internal's
\* sockets depend on
PortConfig(dht, relay) ==
    [dht_port |-> dht, quic_port |-> DefaultQuicPort,
     stats_port |-> DefaultStatsPort, enable_relay |-> relay]

\* u16::MAX, the ceiling of saturating_add on a port number
U16Max == 2^16 - 1

\* u16::saturating_add
saturating_add(p, offset) == IF p + offset > U16Max THEN U16Max ELSE p + offset

\* TcpListener::bind("0.0.0.0:0") and local_addr(): the ports the OS may hand out
OsAssigned(h) == {p \in OsPorts : p \notin h.tcp}

\* the offsets 1..=10 whose port a TcpListener can bind
FreeOffsets(h, preferred) ==
    {o \in 1..PortFallbackRange :
        /\ saturating_add(preferred, o) > 0
        /\ saturating_add(preferred, o) \notin h.tcp}

\* the least element of a non-empty set of numbers
Least(S) == CHOOSE x \in S : \A y \in S : x <= y

PortOk(p) == [ok |-> TRUE, port |-> p]
PortErr == [ok |-> FALSE, port |-> 0]

\* find_available_port: every listener it binds is dropped before it returns,
\* so the host's tables are the same afterwards
find_available_port(h, preferred) ==
    IF preferred = 0
    THEN IF OsAssigned(h) = {} THEN {PortErr} ELSE {PortOk(p) : p \in OsAssigned(h)}
    ELSE IF preferred \notin h.tcp THEN {PortOk(preferred)}
    ELSE IF FreeOffsets(h, preferred) # {}
         THEN {PortOk(saturating_add(preferred, Least(FreeOffsets(h, preferred))))}
    ELSE IF OsAssigned(h) = {} THEN {PortErr} ELSE {PortOk(p) : p \in OsAssigned(h)}

NoPorts == [dht_port |-> 0, quic_port |-> 0, stats_port |-> 0]

\* determine_ports: three find_available_port calls, then BoundPorts
determine_ports(h, cfg) ==
    LET d == find_available_port(h, cfg.dht_port)
        q == find_available_port(h, cfg.quic_port)
        s == find_available_port(h, cfg.stats_port)
    IN  IF PortErr \in d \cup q \cup s THEN {[ok |-> FALSE, ports |-> NoPorts]}
        ELSE {[ok |-> TRUE,
               ports |-> [dht_port |-> a.port, quic_port |-> b.port, stats_port |-> c.port]]
                 : a \in d, b \in q, c \in s}

\* EmbeddedBootstrapService::new, as far as ports go
Instance_new(cfg) ==
    [state |-> "Stopped", pc |-> "idle", cfg |-> cfg, bound_ports |-> NoPorts,
     udp |-> {}, tcp |-> {}, ret |-> "none", returned |-> NoPorts]

\* the sockets of an instance's tasks closed (cleanup aborts the tasks)
ReleaseSockets(h, s) == [h EXCEPT !.tcp = h.tcp \ s.tcp, !.udp = h.udp \ s.udp]

\* start(): Ok(Err(e)) => set_state(Error), cleanup, Err
Instance_start_failed(s) ==
    [s EXCEPT !.state = "Error", !.pc = "idle", !.bound_ports = NoPorts,
              !.udp = {}, !.tcp = {}, !.ret = "Err", !.returned = NoPorts]

\* what the other programs of the host hold when the instances are created
HostOccupancies ==
    {HostTable(t, u) : t \in {{}, ConfiguredPorts}, u \in {{}, ConfiguredPorts}}
      \cup {HostTable(ConfiguredPorts, {DefaultQuicPort}),
            HostTable({DefaultDhtPort, DefaultQuicPort}, {DefaultStatsPort}),
            HostTable(DefaultDhtPort..(DefaultStatsPort + PortFallbackRange), {})}

HostInit ==
    /\ host \in HostOccupancies
    /\ \E dht \in {0, DefaultDhtPort} : \E relay \in BOOLEAN :
          inst = [i \in Instances |-> Instance_new(PortConfig(dht, relay))]

HostIdle ==
    /\ host = HostTable({}, {})
    /\ inst = [i \in Instances |-> Instance_new(PortConfig(DefaultDhtPort, TRUE))]

\* start(): the state check, set_state(Starting), then determine_ports and
\* bound_ports = Some(ports)
HostStart(i) ==
    /\ inst[i].pc = "idle"
    /\ inst[i].state = "Stopped"
    /\ \E r \in determine_ports(host, inst[i].cfg) :
          inst' = [inst EXCEPT ![i] =
                     IF r.ok
                     THEN [@ EXCEPT !.state = "Starting", !.pc = "dht",
                                    !.bound_ports = r.ports, !.ret = "pending"]
                     ELSE Instance_start_failed(@)]
    /\ UNCHANGED <<host, nonHostVars>>

\* start_internal: DhtNode::new binds UdpSocket 0.0.0.0:dht_port
HostBindDht(i) ==
    /\ inst[i].pc = "dht"
    /\ LET p == inst[i].bound_ports.dht_port IN
          IF p \in host.udp
          THEN /\ inst' = [inst EXCEPT ![i] = Instance_start_failed(@)]
               /\ host' = ReleaseSockets(host, inst[i])
          ELSE /\ inst' = [inst EXCEPT ![i].udp = @ \cup {p}, ![i].pc = "relay"]
               /\ host' = [host EXCEPT !.udp = @ \cup {p}]
    /\ UNCHANGED nonHostVars

\* start_internal: RelayServer::new binds a QUIC endpoint (UDP) on
\* 0.0.0.0:quic_port, when enable_relay
HostBindRelay(i) ==
    /\ inst[i].pc = "relay"
    /\ LET p == inst[i].bound_ports.quic_port IN
          IF ~inst[i].cfg.enable_relay
          THEN /\ inst' = [inst EXCEPT ![i].pc = "stats"]
               /\ host' = host
          ELSE IF p \in host.udp
          THEN /\ inst' = [inst EXCEPT ![i] = Instance_start_failed(@)]
               /\ host' = ReleaseSockets(host, inst[i])
          ELSE /\ inst' = [inst EXCEPT ![i].udp = @ \cup {p}, ![i].pc = "stats"]
               /\ host' = [host EXCEPT !.udp = @ \cup {p}]
    /\ UNCHANGED nonHostVars

\* start_internal: StatsServer::new binds a TcpListener on 127.0.0.1 or
\* 0.0.0.0 at stats_port
HostBindStats(i) ==
    /\ inst[i].pc = "stats"
    /\ LET p == inst[i].bound_ports.stats_port IN
          IF p \in host.tcp
          THEN /\ inst' = [inst EXCEPT ![i] = Instance_start_failed(@)]
               /\ host' = ReleaseSockets(host, inst[i])
          ELSE /\ inst' = [inst EXCEPT ![i].tcp = @ \cup {p}, ![i].pc = "ok"]
               /\ host' = [host EXCEPT !.tcp = @ \cup {p}]
    /\ UNCHANGED nonHostVars

\* start(): Ok(Ok(ports)) => set_state(Running), Ok(ports)
HostStartOk(i) ==
    /\ inst[i].pc = "ok"
    /\ inst' = [inst EXCEPT ![i].state = "Running", ![i].pc = "idle",
                            ![i].ret = "Ok", ![i].returned = inst[i].bound_ports]
    /\ UNCHANGED <<host, nonHostVars>>

\* stop() of a running or failed instance: the tasks end, their sockets
\* close, bound_ports = None, set_state(Stopped)
HostStop(i) ==
    /\ inst[i].pc = "idle"
    /\ inst[i].state \in {"Running", "Error"}
    /\ inst' = [inst EXCEPT ![i] = [Instance_new(@.cfg) EXCEPT !.ret = "stopped"]]
    /\ host' = ReleaseSockets(host, inst[i])
    /\ UNCHANGED nonHostVars

HostNext ==
    \E i \in Instances :
        \/ HostStart(i)
        \/ HostBindDht(i)
        \/ HostBindRelay(i)
        \/ HostBindStats(i)
        \/ HostStartOk(i)
        \/ HostStop(i)

(***************************************************************************)
(* lib.rs : the bootstrap commands of the application, around              *)
(* AppState.embedded_bootstrap (an Option<EmbeddedBootstrapService> behind *)
(* one lock), with config.rs BootstrapConfig::validate.  A command holds   *)
(* the lock from its first use of the slot to its return, so commands run  *)
(* one at a time; start() and stop() are taken by their outcomes.          *)
(***************************************************************************)
\* a BootstrapConfig with the default switches and the given session cap
AppConfig(m) ==
    [enable_relay |-> TRUE, enable_mdns_discovery |-> TRUE, enable_turn |-> FALSE,
     has_external_bootstrap |-> FALSE, max_relay_sessions |-> m]

\* the session caps a caller passes: usize values on and beyond both limits
AppRelaySessions ==
    {0, 1, DefaultMaxRelaySessions, MaxRelaySessionsLimit, MaxRelaySessionsLimit + 1}

AppConfigs == {AppConfig(m) : m \in AppRelaySessions}

\* BootstrapConfig::validate without the upper limit
BootstrapConfig_validate_NoUpperLimit(c) == c.max_relay_sessions # 0

\* BootstrapConfig::validate: TRUE for Ok(()), FALSE for Err
BootstrapConfig_validate(c) ==
    IF c.max_relay_sessions = 0 THEN FALSE
    ELSE IF c.max_relay_sessions > MaxRelaySessionsLimit THEN FALSE
    ELSE TRUE

\* the service after a start_internal that went through
Service_running(s, mdns) ==
    [Service_set_state(s, "Running", "") EXCEPT
        !.bound_ports = TRUE, !.started_at = TRUE, !.peer_discovered_rx = TRUE,
        !.dht_handle = TRUE, !.dht_task = TRUE, !.stats_task = TRUE,
        !.relay_task = s.config.enable_relay,
        !.mdns_task = s.config.enable_mdns_discovery /\ mdns,
        !.turn_client = s.config.enable_turn]

\* start(): what it returns and the service it leaves
Service_start(s) ==
    IF StartRefused(s.state) THEN {[ok |-> FALSE, svc |-> s]}
    ELSE {[ok |-> TRUE, svc |-> Service_running(s, mdns)] : mdns \in BOOLEAN}
           \cup {[ok |-> FALSE, svc |-> Service_start_failed(s)],
                 [ok |-> FALSE, svc |-> Service_start_timed_out(s)]}

\* stop(): the service it leaves (it returns Ok on every path)
Service_stop(s) ==
    IF s.state.tag = "Stopped" THEN s
    ELSE Service_set_state(Service_cleanup(s), "Stopped", "")

AppRet(op, cfg, res) == [op |-> op, cfg |-> cfg, res |-> res]

\* AppState after setup: no service yet
AppInit ==
    app = [slot |-> <<>>, auto_started |-> FALSE,
           ret |-> AppRet("none", AppConfig(DefaultMaxRelaySessions), "Ok")]

\* auto_start_bootstrap, once at application start-up
AppAutoStart ==
    /\ ~app.auto_started
    /\ LET config == AppConfig(DefaultMaxRelaySessions) IN
       \E r \in Service_start(Service_new(config)) :
          app' = [app EXCEPT !.auto_started = TRUE,
                             !.slot = IF r.ok THEN <<r.svc>> ELSE @,
                             !.ret = AppRet("auto_start", config,
                                            IF r.ok THEN "Ok" ELSE "Err")]
    /\ UNCHANGED nonAppVars

\* start_embedded_bootstrap(config)
AppStartEmbedded ==
    /\ \E config \in AppConfigs :
          IF ~BootstrapConfig_validate(config)
          THEN app' = [app EXCEPT !.ret = AppRet("start", config, "Err")]
          ELSE IF app.slot # <<>> /\ app.slot[1].state.tag # "Stopped"
          THEN app' = [app EXCEPT !.ret = AppRet("start", config, "Err")]
          ELSE \E r \in Service_start(Service_new(config)) :
                  app' = [app EXCEPT !.slot = IF r.ok THEN <<r.svc>> ELSE @,
                                     !.ret = AppRet("start", config,
                                                    IF r.ok THEN "Ok" ELSE "Err")]
    /\ UNCHANGED nonAppVars

\* stop_embedded_bootstrap
AppStopEmbedded ==
    /\ app' = [app EXCEPT !.slot = <<>>,
                          !.ret = AppRet("stop", app.ret.cfg, "Ok")]
    /\ UNCHANGED nonAppVars

\* update_bootstrap_config(config, restart).  The future update_config
\* returns is not awaited there, so the service's configuration is either
\* replaced or left as it was.
AppUpdateConfig ==
    /\ \E config \in AppConfigs, restart \in BOOLEAN, applied \in BOOLEAN :
          IF ~BootstrapConfig_validate(config)
          THEN app' = [app EXCEPT !.ret = AppRet("update", config, "Err")]
          ELSE IF app.slot = <<>>
          THEN app' = [app EXCEPT !.slot = <<Service_new(config)>>,
                                  !.ret = AppRet("update", config, "Ok")]
          ELSE LET service == app.slot[1]
                   again   == restart /\ service.state.tag = "Running"
                   stopped == IF again THEN Service_stop(service) ELSE service
                   updated == IF applied THEN [stopped EXCEPT !.config = config]
                              ELSE stopped
               IN  IF ~again
                   THEN app' = [app EXCEPT !.slot = <<updated>>,
                                           !.ret = AppRet("update", config, "Ok")]
                   ELSE \E r \in Service_start(updated) :
                           app' = [app EXCEPT !.slot = <<r.svc>>,
                                              !.ret = AppRet("update", config,
                                                      IF r.ok THEN "Ok" ELSE "Err")]
    /\ UNCHANGED nonAppVars

AppNext ==
    \/ AppAutoStart
    \/ AppStartEmbedded
    \/ AppStopEmbedded
    \/ AppUpdateConfig

(***************************************************************************)
(* transfer/multistream.rs : MultiStreamSender::send_file                  *)
(* One send_file call: the manifest, one spawned task per block gated by   *)
(* the semaphore, the join loop and the completion signal.  Each task      *)
(* updates the shared counters in separate lock sections, so tasks         *)
(* interleave between them.                                                *)
(***************************************************************************)
\* calculate_optimal_block_size, with u64::clamp written out
calculate_optimal_block_size(file_size) ==
    IF file_size = 0 THEN MIN_BLOCK
    ELSE LET ideal_size == file_size \div TARGET_PARTS
         IN IF ideal_size < MIN_BLOCK THEN MIN_BLOCK
            ELSE IF ideal_size > MAX_BLOCK THEN MAX_BLOCK
            ELSE ideal_size

\* zero_copy_io.rs split_file_into_blocks; block i is element i + 1
split_file_into_blocks(file_size, block_size) ==
    LET total_blocks == (file_size + block_size - 1) \div block_size
    IN [n \in 1..total_blocks |->
           [index        |-> n - 1,
            offset       |-> (n - 1) * block_size,
            size         |-> Min(block_size, file_size - (n - 1) * block_size),
            total_blocks |-> total_blocks]]

\* file sizes around the block boundaries, of at most MaxBlocks blocks
MsFileSizes ==
    {k * MIN_BLOCK : k \in 0..MaxBlocks} \cup {k * MIN_BLOCK + 1 : k \in 0..(MaxBlocks - 1)}

\* what the ACK wait of send_block_zerocopy can end with: the four bytes
\* BACK, four other bytes, a failed read_exact, or the 30 s timeout
AckOutcomes == {"BACK", "other", "read_error", "timeout"}

\* send_block_zerocopy once the data is written: the match on the ACK wait
\* only logs, and Ok(block.size as u64) follows in every case
BlockResult(block, ack) == [ok |-> TRUE, bytes |-> block.size]

NewTask ==
    [pc |-> "acquire", ack |-> "none", result |-> [ok |-> FALSE, bytes |-> 0],
     blocks_done |-> 0, bytes_done |-> 0, bytes_acked_val |-> 0]

RECURSIVE SumBytes(_, _)
SumBytes(f, S) ==
    IF S = {} THEN 0
    ELSE LET x == CHOOSE y \in S : TRUE IN f[x] + SumBytes(f, S \ {x})

\* the bytes of the blocks whose stream has delivered BACK
BackedBytes(s, t) ==
    SumBytes([n \in DOMAIN t |-> s.blocks[n].size], {n \in DOMAIN t : t[n].ack = "BACK"})

\* SpeedCalculator::update: push_back, then pop the entries older than the
\* window; which entries are that old depends on the clock
SpeedCalculator_update(window, acked_bytes) ==
    LET pushed == Append(window, acked_bytes)
    IN {SubSeq(pushed, d + 1, Len(pushed)) : d \in 0..(Len(pushed) - 1)}

\* send_file entered on a sender built with with_max_concurrent(mc) and with
\* or without a progress channel: the blocks, the semaphore, the counters
MsSender(fs, mc, ptx) ==
    [phase             |-> "manifest",
     file_size         |-> fs,
     max_concurrent    |-> mc,
     progress_tx       |-> ptx,
     blocks            |-> split_file_into_blocks(fs, calculate_optimal_block_size(fs)),
     permits           |-> mc,
     completed_blocks  |-> 0,
     bytes_transferred |-> 0,
     bytes_acknowledged |-> 0,
     window            |-> <<>>,
     events            |-> <<>>,
     result            |-> [ok |-> FALSE, bytes |-> 0]]

MsInit ==
    /\ \E fs \in MsFileSizes, mc \in {1, MAX_CONCURRENT_STREAMS}, ptx \in BOOLEAN :
          snd = MsSender(fs, mc, ptx)
    /\ task = <<>>

\* a default sender about to send an empty file
MsIdle ==
    /\ snd = MsSender(0, MAX_CONCURRENT_STREAMS, FALSE)
    /\ task = <<>>

\* send_manifest, then the loop that spawns one task per block
MsSendManifest ==
    /\ snd.phase = "manifest"
    /\ \E acked \in BOOLEAN :
          IF acked
          THEN /\ snd' = [snd EXCEPT !.phase = "blocks"]
               /\ task' = [n \in DOMAIN snd.blocks |-> NewTask]
          ELSE /\ snd' = [snd EXCEPT !.phase = "returned"]
               /\ UNCHANGED task
    /\ UNCHANGED nonMsVars

\* sem.acquire()
MsAcquire(n) ==
    /\ task[n].pc = "acquire"
    /\ snd.permits > 0
    /\ snd' = [snd EXCEPT !.permits = @ - 1]
    /\ task' = [task EXCEPT ![n].pc = "send"]
    /\ UNCHANGED nonMsVars

\* send_block_zerocopy failing with ? before the ACK wait; the task ends
MsBlockStreamError(n) ==
    /\ task[n].pc = "send"
    /\ task' = [task EXCEPT ![n].pc = "done"]
    /\ snd' = [snd EXCEPT !.permits = @ + 1]
    /\ UNCHANGED nonMsVars

\* send_block_zerocopy through to its return value
MsSendBlock(n) ==
    /\ task[n].pc = "send"
    /\ \E ack \in AckOutcomes :
          LET r == BlockResult(snd.blocks[n], ack)
          IN IF r.ok
             THEN /\ task' = [task EXCEPT ![n].pc = "completed", ![n].ack = ack,
                                          ![n].result = r]
                  /\ UNCHANGED snd
             ELSE /\ task' = [task EXCEPT ![n].pc = "done", ![n].ack = ack]
                  /\ snd' = [snd EXCEPT !.permits = @ + 1]
    /\ UNCHANGED nonMsVars

\* *comp += 1
MsCompleted(n) ==
    /\ task[n].pc = "completed"
    /\ snd' = [snd EXCEPT !.completed_blocks = @ + 1]
    /\ task' = [task EXCEPT ![n].pc = "transferred",
                            ![n].blocks_done = snd.completed_blocks + 1]
    /\ UNCHANGED nonMsVars

\* *trans += sent_size
MsTransferred(n) ==
    /\ task[n].pc = "transferred"
    /\ snd' = [snd EXCEPT !.bytes_transferred = @ + task[n].result.bytes]
    /\ task' = [task EXCEPT ![n].pc = "acknowledged",
                            ![n].bytes_done = snd.bytes_transferred + task[n].result.bytes]
    /\ UNCHANGED nonMsVars

\* *acked += sent_size
MsAcknowledged(n) ==
    /\ task[n].pc = "acknowledged"
    /\ snd' = [snd EXCEPT !.bytes_acknowledged = @ + task[n].result.bytes]
    /\ task' = [task EXCEPT ![n].pc = "speed",
                            ![n].bytes_acked_val = snd.bytes_acknowledged + task[n].result.bytes]
    /\ UNCHANGED nonMsVars

\* calc.update(bytes_acked_val)
MsSpeedUpdate(n) ==
    /\ task[n].pc = "speed"
    /\ \E w \in SpeedCalculator_update(snd.window, task[n].bytes_acked_val) :
          snd' = [snd EXCEPT !.window = w]
    /\ task' = [task EXCEPT ![n].pc = "emit"]
    /\ UNCHANGED nonMsVars

\* tx.send(MultiStreamProgress {..}) when a progress channel is set; the
\* task ends and its permit is dropped
MsEmit(n) ==
    /\ task[n].pc = "emit"
    /\ snd' = [snd EXCEPT
                 !.permits = @ + 1,
                 !.events = IF snd.progress_tx
                            THEN Append(@, [blocks_completed   |-> task[n].blocks_done,
                                            bytes_transferred  |-> task[n].bytes_done,
                                            acknowledged_bytes |-> task[n].bytes_acked_val])
                            ELSE @]
    /\ task' = [task EXCEPT ![n].pc = "done"]
    /\ UNCHANGED nonMsVars

\* the join loop, send_completion_signal, calc.reset(), Ok(total_sent)
MsJoin ==
    /\ snd.phase = "blocks"
    /\ \A n \in DOMAIN task : task[n].pc = "done"
    /\ \E signalled \in BOOLEAN :
          snd' = [snd EXCEPT
                    !.phase = "returned",
                    !.window = IF signalled THEN <<>> ELSE @,
                    !.result = IF signalled
                               THEN [ok |-> TRUE,
                                     bytes |-> SumBytes([n \in DOMAIN task |-> task[n].result.bytes],
                                                        {n \in DOMAIN task : task[n].result.ok})]
                               ELSE @]
    /\ UNCHANGED <<task, nonMsVars>>

MsNext ==
    \/ MsSendManifest
    \/ \E n \in DOMAIN task : MsAcquire(n)
    \/ \E n \in DOMAIN task : MsBlockStreamError(n)
    \/ \E n \in DOMAIN task : MsSendBlock(n)
    \/ \E n \in DOMAIN task : MsCompleted(n)
    \/ \E n \in DOMAIN task : MsTransferred(n)
    \/ \E n \in DOMAIN task : MsAcknowledged(n)
    \/ \E n \in DOMAIN task : MsSpeedUpdate(n)
    \/ \E n \in DOMAIN task : MsEmit(n)
    \/ MsJoin

(***************************************************************************)
(* transfer/multistream.rs : MultiStreamReceiver::receive_file             *)
(* One receive_file call.  The remote end is either this program's         *)
(* MultiStreamSender, whose block headers come from split_file_into_blocks *)
(* of the manifest's file, or another program, whose manifest and headers  *)
(* are whatever it sends.                                                  *)
(***************************************************************************)
MultiStreamManifest(fs, total, jobOk) ==
    [file_size |-> fs, total_blocks |-> total, job_id_matches |-> jobOk]

BlockHeader(index, offset, size) ==
    [block_index |-> index, offset |-> offset, size |-> size]

\* the manifest MultiStreamSender::send_file sends for a file of fs bytes
SenderManifest(fs) ==
    MultiStreamManifest(
        fs, Len(split_file_into_blocks(fs, calculate_optimal_block_size(fs))), TRUE)

\* the headers send_block_zerocopy sends for a file of fs bytes
SenderHeaders(fs) ==
    LET blocks == split_file_into_blocks(fs, calculate_optimal_block_size(fs))
    IN  {BlockHeader(blocks[n].index, blocks[n].offset, blocks[n].size) :
            n \in DOMAIN blocks}

\* manifests and headers another program may send
ForeignManifests ==
    {MultiStreamManifest(fs, total, jobOk) :
        fs \in {0, 1, MIN_BLOCK}, total \in 0..MaxBlocks, jobOk \in BOOLEAN}

ForeignHeaders ==
    {BlockHeader(index, offset, size) :
        index \in 0..1, offset \in {0, 1, MIN_BLOCK}, size \in {0, 1, MIN_BLOCK}}

\* the headers the remote end of this call sends
RemoteHeaders(r) ==
    IF r.remote = "sender" THEN SenderHeaders(r.manifest.file_size)
    ELSE ForeignHeaders

\* MultiStreamReceiver::new and the entry of receive_file
Receiver_new(remote) ==
    [remote          |-> remote,
     phase           |-> "manifest",
     manifest        |-> MultiStreamManifest(0, 0, TRUE),
     file_len        |-> 0,
     writes          |-> {},
     received_blocks |-> {},
     bytes_received  |-> 0,
     streams         |-> 0,
     result          |-> "none"]

\* the file after seek(offset) and write_all(buffer) of header.size bytes
File_write_at(len, header) ==
    IF header.size = 0 THEN len
    ELSE IF header.offset + header.size > len THEN header.offset + header.size
    ELSE len

\* what a receive_block call can end with: an error before the file is
\* touched, an error when the ACK is written, or Ok((block_index, size))
ReceiveBlockOutcomes == {"read_error", "ack_error", "ok"}

RcvInit == rcv \in {Receiver_new(remote) : remote \in {"sender", "foreign"}}

RcvIdle == rcv = Receiver_new("sender")

\* receive_manifest failing, or the job id check failing: Err
RcvManifestError ==
    /\ rcv.phase = "manifest"
    /\ rcv' = [rcv EXCEPT !.phase = "returned", !.result = "Err"]
    /\ UNCHANGED nonRcvVars

\* receive_manifest, the job id check, the file created, truncated and
\* set to manifest.file_size
RcvManifest ==
    /\ rcv.phase = "manifest"
    /\ \E m \in IF rcv.remote = "sender"
                THEN {SenderManifest(fs) : fs \in MsFileSizes}
                ELSE ForeignManifests :
          IF ~m.job_id_matches
          THEN rcv' = [rcv EXCEPT !.phase = "returned", !.result = "Err",
                                  !.manifest = m]
          ELSE rcv' = [rcv EXCEPT !.phase = "blocks", !.manifest = m,
                                  !.file_len = m.file_size]
    /\ UNCHANGED nonRcvVars

\* accept_bi, the marker BLCK, receive_block and the state update after it
RcvBlock ==
    /\ rcv.phase = "blocks"
    /\ rcv.streams < MaxStreams
    /\ \E header \in RemoteHeaders(rcv), outcome \in ReceiveBlockOutcomes :
          rcv' = [rcv EXCEPT
                    !.streams = @ + 1,
                    !.file_len = IF outcome = "read_error" THEN @
                                 ELSE File_write_at(@, header),
                    !.writes = IF outcome = "read_error" THEN @ ELSE @ \cup {header},
                    !.received_blocks = IF outcome = "ok"
                                        THEN @ \cup {header.block_index} ELSE @,
                    !.bytes_received = IF outcome = "ok" THEN @ + header.size ELSE @]
    /\ UNCHANGED nonRcvVars

\* the marker DONE, or accept_bi failing: the loop ends, the block count is
\* compared (a warning), Ok(save_path)
RcvDone ==
    /\ rcv.phase = "blocks"
    /\ rcv' = [rcv EXCEPT !.phase = "returned", !.result = "Ok"]
    /\ UNCHANGED nonRcvVars

RcvNext ==
    \/ RcvManifestError
    \/ RcvManifest
    \/ RcvBlock
    \/ RcvDone

(***************************************************************************)
(* transfer/zero_copy_io.rs : HighPerformanceFileSender                    *)
(* A sender opened on a file that another program may truncate or extend   *)
(* afterwards.  Bytes are named by their position, so a buffer is the      *)
(* position of its first byte and its length.                              *)
(***************************************************************************)
\* HighPerformanceFileSender::open: file_size from the metadata, and the
\* mapping (whose length is that size) when Mmap::map succeeded
FileSender_open(size, mapped) ==
    [file_size |-> size, mmap |-> mapped, disk_len |-> size,
     call |-> [made |-> FALSE, block |-> [index |-> 0, offset |-> 0, size |-> 0,
                                          total_blocks |-> 0],
               ok |-> FALSE, start |-> 0, len |-> 0]]

ReadOk(start, len) == [ok |-> TRUE, start |-> start, len |-> len]
ReadErr == [ok |-> FALSE, start |-> 0, len |-> 0]

\* read_block_buffered: open, seek, read until block.size bytes or end of
\* file, truncate the buffer to the bytes read
read_block_buffered(s, block) ==
    LET avail      == IF s.disk_len > block.offset THEN s.disk_len - block.offset ELSE 0
        bytes_read == Min(block.size, avail)
    IN  {ReadErr, ReadOk(block.offset, bytes_read)}

\* read_block_owned: a copy of the mapped range, else read_block_buffered.
\* Reading mapped pages that the file no longer backs either yields the
\* bytes or ends the process with a fault.
read_block_owned(s, block) ==
    IF s.mmap /\ block.offset + block.size <= s.file_size
    THEN IF block.offset + block.size <= s.disk_len
         THEN {ReadOk(block.offset, block.size)}
         ELSE {ReadOk(block.offset, block.size), ReadErr}
    ELSE read_block_buffered(s, block)

\* get_blocks(block_size) for the block sizes a caller may pass
FileSender_blocks(s) ==
    UNION {{split_file_into_blocks(s.file_size, bs)[n] :
               n \in DOMAIN split_file_into_blocks(s.file_size, bs)} :
           bs \in 1..MaxFileLen}

RdInit ==
    rdr \in {FileSender_open(size, mapped) : size \in 0..MaxFileLen, mapped \in BOOLEAN}

RdIdle == rdr = FileSender_open(0, FALSE)

\* another program truncates or extends the file
RdFileChanged ==
    /\ \E len \in 0..MaxFileLen :
          /\ len # rdr.disk_len
          /\ rdr' = [rdr EXCEPT !.disk_len = len]
    /\ UNCHANGED nonRdVars

\* read_block_owned(block) for a block of get_blocks
RdReadBlock ==
    /\ \E block \in FileSender_blocks(rdr) :
       \E r \in read_block_owned(rdr, block) :
          rdr' = [rdr EXCEPT !.call = [made |-> TRUE, block |-> block, ok |-> r.ok,
                                       start |-> r.start, len |-> r.len]]
    /\ UNCHANGED nonRdVars

RdNext ==
    \/ RdFileChanged
    \/ RdReadBlock

(***************************************************************************)
(* grid/piece_manager.rs : FileMetadata, PieceManager                      *)
(* Piece data is a record [len, content]; SHA-256 is taken to be free of   *)
(* collisions, so a digest stands for exactly one byte string.             *)
(***************************************************************************)
\* Sha256::new().update(data).finalize()
Sha256(data) == <<"sha256", data.len, data.content>>

\* a usize length wraps * 2^32 + low, kept in two parts
USize(wraps, low) == [wraps |-> wraps, low |-> low]

\* data.len() as u32
AsU32(n) == n.low

\* the bytes of piece index of the file the metadata was made from
TrueData(index, length) == [len |-> USize(0, length), content |-> <<"piece", index>>]

\* FileMetadata::from_file for a file of n pieces whose last piece is short
FileMetadata(n) ==
    [file_size    |-> (n - 1) * PieceSize + LastPieceLen,
     piece_size   |-> PieceSize,
     total_pieces |-> n,
     piece_hashes |-> [i \in 0..(n - 1) |->
                          Sha256(TrueData(i, IF i = n - 1 THEN LastPieceLen ELSE PieceSize))]]

\* PieceManager::build_piece_infos
build_piece_infos(metadata) ==
    [i \in 0..(metadata.total_pieces - 1) |->
        [index  |-> i,
         offset |-> i * metadata.piece_size,
         length |-> IF i = metadata.total_pieces - 1
                    THEN metadata.file_size - i * metadata.piece_size
                    ELSE metadata.piece_size,
         hash   |-> metadata.piece_hashes[i]]]

\* PieceManager::new; my_bitfield is the set of marked indices
PieceManager_new(metadata) ==
    [metadata       |-> metadata,
     pieces         |-> build_piece_infos(metadata),
     my_bitfield    |-> {},
     pending_pieces |-> <<>>,
     save_path      |-> FALSE]

\* PieceManager::new_seeder
PieceManager_new_seeder(metadata) ==
    [PieceManager_new(metadata) EXCEPT !.my_bitfield = 0..(metadata.total_pieces - 1)]

\* PendingPiece { index, requested_at, from_peer, .. }; stale stands for
\* now.duration_since(requested_at) > 30 s
PendingPiece(index, peer_id, stale) ==
    [index |-> index, from_peer |-> peer_id, stale |-> stale]

\* PieceManager::request_piece(index, peer_id): the manager and the bool returned
PieceManager_request_piece(p, index, peer_id) ==
    IF index \in DOMAIN p.pending_pieces
    THEN [pm |-> p, ok |-> FALSE]
    ELSE [pm |-> [p EXCEPT !.pending_pieces =
                     [k \in DOMAIN @ \cup {index} |->
                         IF k = index THEN PendingPiece(index, peer_id, FALSE) ELSE @[k]]],
          ok |-> TRUE]

\* PieceManager::complete_request(index)
PieceManager_complete_request(p, index) ==
    [p EXCEPT !.pending_pieces = [k \in DOMAIN @ \ {index} |-> @[k]]]

\* PieceManager::cleanup_stale_requests: the manager and the indices returned
PieceManager_cleanup_stale_requests(p) ==
    LET stale == {k \in DOMAIN p.pending_pieces : p.pending_pieces[k].stale}
    IN [pm    |-> [p EXCEPT !.pending_pieces = [k \in DOMAIN @ \ stale |-> @[k]]],
        stale |-> stale]

\* more than 30 s pass: every request made so far is older than the timeout
PieceManager_requests_age(p) ==
    [p EXCEPT !.pending_pieces = [k \in DOMAIN @ |-> [@[k] EXCEPT !.stale = TRUE]]]

\* PieceManager::set_save_path
PieceManager_set_save_path(p) == [p EXCEPT !.save_path = TRUE]

\* PieceManager::verify_piece that compares the length only
PieceManager_verify_piece_LengthOnly(p, index, data) ==
    /\ index \in DOMAIN p.pieces
    /\ AsU32(data.len) = p.pieces[index].length

\* PieceManager::verify_piece
PieceManager_verify_piece(p, index, data) ==
    /\ index \in DOMAIN p.pieces
    /\ AsU32(data.len) = p.pieces[index].length
    /\ Sha256(data) = p.pieces[index].hash

\* Bitfield::set(index, true) behind PieceManager::mark_completed
PieceManager_mark_completed(p, index) ==
    IF index >= p.metadata.total_pieces THEN p
    ELSE [p EXCEPT !.my_bitfield = @ \cup {index}]

\* Bitfield::is_complete behind PieceManager::is_complete
PieceManager_is_complete(p) == Cardinality(p.my_bitfield) = p.metadata.total_pieces

\* the file at save_path before anything was written
NoFile == [exists |-> FALSE, len |-> 0, regions |-> <<>>]

\* OpenOptions::write(true).create(true).open, then set_len(file_size)
File_open_set_len(f, p) ==
    [exists  |-> TRUE,
     len     |-> p.metadata.file_size,
     regions |-> [i \in DOMAIN p.pieces |->
                     IF f.exists /\ i \in DOMAIN f.regions THEN f.regions[i] ELSE <<"zeros">>]]

\* seek(piece.offset), write_all(data), flush
File_write(f, index, data) == [f EXCEPT !.regions[index] = data.content]

\* how the file operations of write_piece can go
IoOutcomes == {"ok", "open_failed", "write_failed"}

\* PieceManager::write_piece: the result, the manager and the file after it
PieceManager_write_piece(p, f, index, data, io) ==
    LET Err == [ok |-> FALSE, pm |-> p, file |-> f]
    IN IF index \notin DOMAIN p.pieces THEN Err
       ELSE IF AsU32(data.len) # p.pieces[index].length THEN Err
       ELSE IF ~PieceManager_verify_piece(p, index, data) THEN Err
       ELSE IF ~p.save_path THEN Err
       ELSE IF io = "open_failed" THEN Err
       ELSE IF io = "write_failed"
            THEN [ok |-> FALSE, pm |-> p, file |-> File_open_set_len(f, p)]
       ELSE [ok   |-> TRUE,
             pm   |-> PieceManager_mark_completed(p, index),
             file |-> File_write(File_open_set_len(f, p), index, data)]

\* the Piece payloads a caller or a remote peer can supply for piece index:
\* the true bytes, other bytes of the same length, one byte more, the true
\* bytes of another piece, and a payload 2^32 bytes longer
PieceData(p, index) ==
    LET len == IF index \in DOMAIN p.pieces THEN p.pieces[index].length ELSE PieceSize
    IN {TrueData(index, len),
        [len |-> USize(0, len), content |-> <<"junk">>],
        [len |-> USize(0, len + 1), content |-> <<"piece", index>>],
        TrueData(0, PieceSize),
        [len |-> USize(1, len), content |-> <<"junk">>]}

\* a PieceManager built for a file of 1..MaxPieces pieces, no call made yet
PmInit ==
    /\ pmo \in {PieceManager_new(FileMetadata(n)) : n \in 1..MaxPieces}
    /\ pmFile = NoFile
    /\ pmRet = [op |-> "new", index |-> 0, data |-> <<>>, ok |-> TRUE]

\* a PieceManager of a one-piece file that nothing is done with
PmIdle ==
    /\ pmo = PieceManager_new(FileMetadata(1))
    /\ pmFile = NoFile
    /\ pmRet = [op |-> "new", index |-> 0, data |-> <<>>, ok |-> TRUE]

\* set_save_path(path)
PmSetSavePath ==
    /\ ~pmo.save_path
    /\ pmo' = PieceManager_set_save_path(pmo)
    /\ pmRet' = [op |-> "set_save_path", index |-> 0, data |-> <<>>, ok |-> TRUE]
    /\ UNCHANGED <<pmFile, nonPmVars>>

\* write_piece(index, data)
PmWritePiece ==
    /\ \E index \in 0..pmo.metadata.total_pieces :
       \E data \in PieceData(pmo, index), io \in IoOutcomes :
          LET r == PieceManager_write_piece(pmo, pmFile, index, data, io)
          IN /\ pmo' = r.pm
             /\ pmFile' = r.file
             /\ pmRet' = [op |-> "write_piece", index |-> index, data |-> data, ok |-> r.ok]
    /\ UNCHANGED nonPmVars

\* mark_completed(index), called directly
PmMarkCompleted ==
    /\ \E index \in 0..pmo.metadata.total_pieces :
          /\ pmo' = PieceManager_mark_completed(pmo, index)
          /\ pmRet' = [op |-> "mark_completed", index |-> index, data |-> <<>>, ok |-> TRUE]
    /\ UNCHANGED <<pmFile, nonPmVars>>

\* request_piece(index, peer_id)
PmRequestPiece ==
    /\ \E index \in DOMAIN pmo.pieces :
          LET r == PieceManager_request_piece(pmo, index, "peer")
          IN /\ pmo' = r.pm
             /\ pmRet' = [op |-> "request_piece", index |-> index, data |-> <<>>, ok |-> r.ok]
    /\ UNCHANGED <<pmFile, nonPmVars>>

\* complete_request(index)
PmCompleteRequest ==
    /\ \E index \in DOMAIN pmo.pieces :
          /\ pmo' = PieceManager_complete_request(pmo, index)
          /\ pmRet' = [op |-> "complete_request", index |-> index, data |-> <<>>, ok |-> TRUE]
    /\ UNCHANGED <<pmFile, nonPmVars>>

\* cleanup_stale_requests()
PmCleanupStaleRequests ==
    /\ pmo' = PieceManager_cleanup_stale_requests(pmo).pm
    /\ pmRet' = [op |-> "cleanup_stale_requests", index |-> 0, data |-> <<>>, ok |-> TRUE]
    /\ UNCHANGED <<pmFile, nonPmVars>>

\* the requests pending grow older than the timeout
PmRequestsAge ==
    /\ \E k \in DOMAIN pmo.pending_pieces : ~pmo.pending_pieces[k].stale
    /\ pmo' = PieceManager_requests_age(pmo)
    /\ UNCHANGED <<pmFile, pmRet, nonPmVars>>

PmNext ==
    \/ PmSetSavePath
    \/ PmWritePiece
    \/ PmMarkCompleted

\* the methods above with those of the pending map
PmPendingNext ==
    \/ PmNext
    \/ PmRequestPiece
    \/ PmCompleteRequest
    \/ PmCleanupStaleRequests
    \/ PmRequestsAge

(***************************************************************************)
(* grid/swarm.rs : GridSwarm, with grid/peer.rs : Peer                     *)
(* The swarm loop handles one command, peer event or tick at a time.  Each *)
(* remote address has at most one peer task; the task takes commands from  *)
(* its queue and messages from the remote, and reports to the swarm        *)
(* through the peer event channel evq.  Remote M sends what it likes;      *)
(* remote L seeds the whole file and answers the Requests it gets.  The    *)
(* disk does not fail here: PmSpec covers write_piece under failing I/O.   *)
(***************************************************************************)
Addrs == {"M", "L"}

\* Peer::new: format!("peer_{}", remote_addr)
PeerKey(a) == <<"peer_", a>>

\* connect_to_peer: addr.to_string()
AddrKey(a) == <<a>>

\* handle_message: hex::encode(&peer_id[..8]) of the id in a's Handshake
HexId(a) == <<"hex", a>>

\* a peer task that was never started
NoSession == [status |-> "none", peer_id |-> <<>>, cmds |-> <<>>]

\* Peer::new and the spawn of Peer::run
NewSession(a) == [status |-> "live", peer_id |-> PeerKey(a), cmds |-> <<>>]

\* the end of Peer::run: command_rx is dropped with the task
EndSession(s) == [s EXCEPT !.status = "closed", !.cmds = <<>>]

\* GridSwarm::new around a PieceManager the caller built; peers maps a key to
\* the address of its session, peer_choking to state.peer_choking of its entry
GridSwarm_new ==
    [peers             |-> <<>>,
     peer_choking      |-> <<>>,
     scheduler         |-> Scheduler_new(DefaultTotalPieces),
     permits           |-> MaxPeers,
     started           |-> FALSE,
     transfer_complete |-> 0]

\* the PieceManagers a caller hands to GridSwarm::new: built for the file to
\* fetch, with or without a save path
SwarmInit ==
    /\ \E n \in 1..MaxPieces, sp \in BOOLEAN :
          pm = [PieceManager_new(FileMetadata(n)) EXCEPT !.save_path = sp]
    /\ disk = NoFile
    /\ sw = GridSwarm_new
    /\ sess = [a \in Addrs |-> NoSession]
    /\ evq = <<>>
    /\ net = [asked |-> [a \in Addrs |-> {}], budget |-> MaxMsgs,
              lStage |-> "start", answered_bad |-> {}]

\* a swarm that is given no command and no connection
SwarmIdle ==
    /\ pm = PieceManager_new(FileMetadata(1))
    /\ disk = NoFile
    /\ sw = GridSwarm_new
    /\ sess = [a \in Addrs |-> NoSession]
    /\ evq = <<>>
    /\ net = [asked |-> [a \in Addrs |-> {}], budget |-> 0,
              lStage |-> "start", answered_bad |-> {}]

\* command_tx.send(cmd) on the table entry of key: it reaches the peer task
\* while that task's receiver is alive
SendCommand(ss, a, cmd) ==
    IF ss[a].status = "live" THEN [ss EXCEPT ![a].cmds = Append(@, cmd)] ELSE ss

\* GridSwarm::broadcast_have
RECURSIVE BroadcastHave(_, _, _, _)
BroadcastHave(ss, peers, keys, index) ==
    IF keys = {} THEN ss
    ELSE LET k == CHOOSE x \in keys : TRUE
         IN BroadcastHave(SendCommand(ss, peers[k], [type |-> "Have", piece_index |-> index]),
                          peers, keys \ {k}, index)

\* GridSwarm::request_piece: the scheduler and the sessions after it
GridSwarm_request_piece(st, peer_id, piece_index) ==
    IF peer_id \in DOMAIN sw.peers /\ piece_index \in DOMAIN pm.pieces
    THEN [scheduler |-> Scheduler_mark_pending(st.scheduler, piece_index),
          sess      |-> SendCommand(st.sess, sw.peers[peer_id],
                                    [type |-> "Request", piece_index |-> piece_index])]
    ELSE st

\* the for loop of GridSwarm::schedule_requests
RECURSIVE ScheduleLoop(_, _)
ScheduleLoop(st, requests) ==
    IF requests = <<>> THEN st
    ELSE ScheduleLoop(GridSwarm_request_piece(st, Head(requests).target_peer,
                                              Head(requests).piece_index),
                      Tail(requests))

\* SwarmCommand::StartDownload { metadata, save_path }
SwStartDownload ==
    /\ ~sw.started
    /\ pm' = PieceManager_set_save_path(PieceManager_new(pm.metadata))
    /\ sw' = [sw EXCEPT !.scheduler = Scheduler_new(pm.metadata.total_pieces),
                        !.started = TRUE]
    /\ UNCHANGED <<disk, sess, evq, net, nonSwarmVars>>

\* SwarmCommand::ConnectPeer(addr), for an address not connected to before
SwConnectPeer(a) ==
    /\ sess[a].status = "none"
    /\ IF AddrKey(a) \in DOMAIN sw.peers \/ sw.permits = 0
       THEN UNCHANGED <<sw, sess>>
       ELSE \E connected \in BOOLEAN :
               IF connected
               THEN /\ sw' = [sw EXCEPT !.peers = PutPeer(@, PeerKey(a), a),
                                        !.peer_choking = PutPeer(@, PeerKey(a), TRUE),
                                        !.permits = @ - 1]
                    /\ sess' = [sess EXCEPT ![a] = NewSession(a)]
               ELSE UNCHANGED <<sw, sess>>
    /\ UNCHANGED <<pm, disk, evq, net, nonSwarmVars>>

\* schedule_interval.tick(): schedule_requests
SwTick ==
    /\ \E requests \in Scheduler_generate_requests(sw.scheduler, MaxRequestsPerTick) :
          LET st == ScheduleLoop([scheduler |-> sw.scheduler, sess |-> sess], requests)
          IN /\ sw' = [sw EXCEPT !.scheduler = st.scheduler]
             /\ sess' = st.sess
    /\ UNCHANGED <<pm, disk, evq, net, nonSwarmVars>>

\* handle_peer_event, arm PieceReceived
HandlePieceReceived(e) ==
    LET r == PieceManager_write_piece(pm, disk, e.piece_index, e.data, "ok")
        done == Scheduler_mark_completed(sw.scheduler, e.piece_index)
    IN /\ pm' = r.pm
       /\ disk' = r.file
       /\ IF r.ok
          THEN /\ sw' = [sw EXCEPT
                           !.scheduler = done,
                           !.transfer_complete =
                               IF Scheduler_is_complete(done) THEN @ + 1 ELSE @]
               /\ sess' = BroadcastHave(sess, sw.peers, DOMAIN sw.peers, e.piece_index)
          ELSE UNCHANGED <<sw, sess>>

\* peer_event_rx.recv(): handle_peer_event
SwHandleEvent ==
    /\ evq # <<>>
    /\ evq' = Tail(evq)
    /\ LET e == Head(evq)
       IN CASE e.type = "Disconnected" ->
                  /\ sw' = [sw EXCEPT !.peers = DropPeer(@, e.peer_id),
                                      !.peer_choking = DropPeer(@, e.peer_id),
                                      !.scheduler = Scheduler_remove_peer(@, e.peer_id)]
                  /\ UNCHANGED <<pm, disk, sess>>
            [] e.type = "HandshakeComplete" ->
                  UNCHANGED <<pm, disk, sw, sess>>
            [] e.type = "BitfieldReceived" ->
                  /\ sw' = [sw EXCEPT !.scheduler =
                                         Scheduler_set_peer_bitfield(@, e.peer_id, e.pieces)]
                  /\ UNCHANGED <<pm, disk, sess>>
            [] e.type = "HaveReceived" ->
                  /\ sw' = [sw EXCEPT !.scheduler =
                                         Scheduler_peer_has_piece(@, e.peer_id, e.piece_index)]
                  /\ UNCHANGED <<pm, disk, sess>>
            [] e.type = "PieceReceived" -> HandlePieceReceived(e)
            [] e.type = "ChokeChanged" ->
                  /\ sw' = [sw EXCEPT !.peer_choking =
                                         IF e.peer_id \in DOMAIN sw.peers
                                         THEN PutPeer(@, e.peer_id, e.choked) ELSE @]
                  /\ UNCHANGED <<pm, disk, sess>>
    /\ UNCHANGED <<net, nonSwarmVars>>

\* message_loop, arm command_rx.recv()
PeerCommand(a) ==
    /\ sess[a].status = "live"
    /\ sess[a].cmds # <<>>
    /\ LET cmd == Head(sess[a].cmds)
       IN CASE cmd.type = "Request" ->
                  /\ sess' = [sess EXCEPT ![a].cmds = Tail(@)]
                  /\ net' = [net EXCEPT !.asked[a] = @ \cup {cmd.piece_index}]
                  /\ UNCHANGED <<evq, sw>>
            [] cmd.type = "Have" ->
                  /\ sess' = [sess EXCEPT ![a].cmds = Tail(@)]
                  /\ UNCHANGED <<evq, sw, net>>
            [] cmd.type = "Disconnect" ->
                  /\ sess' = [sess EXCEPT ![a] = EndSession(@)]
                  /\ evq' = Append(evq, [type |-> "Disconnected", peer_id |-> sess[a].peer_id])
                  /\ sw' = [sw EXCEPT !.permits = @ + 1]
                  /\ UNCHANGED net
    /\ UNCHANGED <<pm, disk, nonSwarmVars>>

\* the messages remote M puts on its stream
MMessages ==
    {[type |-> "Handshake", matches |-> m] : m \in BOOLEAN}
    \cup {[type |-> "Bitfield", pieces |-> DOMAIN pm.pieces]}
    \cup {[type |-> "Piece", piece_index |-> i,
            data |-> TrueData(i, pm.pieces[i].length)] : i \in DOMAIN pm.pieces}
    \cup {[type |-> "Piece", piece_index |-> i,
            data |-> [len |-> USize(0, pm.pieces[i].length), content |-> <<"junk">>]] :
             i \in DOMAIN pm.pieces}

\* message_loop, arm GridMessage::read_from, then handle_message: the task
\* of address a after msg, and the event it sends
Peer_handle_message(s, a, msg) ==
    CASE msg.type = "Handshake" /\ msg.matches ->
            [sess  |-> [s EXCEPT !.peer_id = HexId(a)],
             event |-> [type |-> "HandshakeComplete", peer_id |-> HexId(a)]]
      [] msg.type = "Handshake" /\ ~msg.matches ->
            [sess  |-> EndSession(s),
             event |-> [type |-> "Disconnected", peer_id |-> s.peer_id]]
      [] msg.type = "Bitfield" ->
            [sess  |-> s,
             event |-> [type |-> "BitfieldReceived", peer_id |-> s.peer_id,
                        pieces |-> msg.pieces]]
      [] msg.type = "Have" ->
            [sess  |-> s,
             event |-> [type |-> "HaveReceived", peer_id |-> s.peer_id,
                        piece_index |-> msg.piece_index]]
      [] msg.type = "Piece" ->
            [sess  |-> s,
             event |-> [type |-> "PieceReceived", peer_id |-> s.peer_id,
                        piece_index |-> msg.piece_index, data |-> msg.data]]
      [] msg.type \in {"Choke", "Unchoke"} ->
            [sess  |-> s,
             event |-> [type |-> "ChokeChanged", peer_id |-> s.peer_id,
                        choked |-> (msg.type = "Choke")]]
      [] msg.type = "EOF" ->
            [sess  |-> EndSession(s),
             event |-> [type |-> "Disconnected", peer_id |-> s.peer_id]]

\* the peer task of a reads msg
PeerReceive(a, msg) ==
    LET r == Peer_handle_message(sess[a], a, msg)
    IN /\ sess' = [sess EXCEPT ![a] = r.sess]
       /\ evq' = Append(evq, r.event)
       /\ sw' = [sw EXCEPT !.permits = IF r.sess.status = "closed" THEN @ + 1 ELSE @]

\* remote M sends one more message
MSend ==
    /\ sess["M"].status = "live"
    /\ net.budget > 0
    /\ \E msg \in MMessages :
          /\ PeerReceive("M", msg)
          /\ net' = [net EXCEPT
                       !.budget = @ - 1,
                       !.answered_bad =
                           IF msg.type = "Piece"
                              /\ msg.piece_index \in net.asked["M"]
                              /\ msg.data # TrueData(msg.piece_index,
                                                     pm.pieces[msg.piece_index].length)
                           THEN @ \cup {msg.piece_index} ELSE @]
    /\ UNCHANGED <<pm, disk, nonSwarmVars>>

\* remote M chokes or unchokes
MChoke ==
    /\ sess["M"].status = "live"
    /\ net.budget > 0
    /\ \E t \in {"Choke", "Unchoke"} : PeerReceive("M", [type |-> t])
    /\ net' = [net EXCEPT !.budget = @ - 1]
    /\ UNCHANGED <<pm, disk, nonSwarmVars>>

\* remote L announces that it holds every piece
LBitfield ==
    /\ sess["L"].status = "live"
    /\ net.lStage = "start"
    /\ PeerReceive("L", [type |-> "Bitfield", pieces |-> DOMAIN pm.pieces])
    /\ net' = [net EXCEPT !.lStage = "announced"]
    /\ UNCHANGED <<pm, disk, nonSwarmVars>>

\* remote L answers a Request it received with the piece's true bytes
LAnswer(i) ==
    /\ sess["L"].status = "live"
    /\ i \in net.asked["L"]
    /\ i \in DOMAIN pm.pieces
    /\ PeerReceive("L", [type |-> "Piece", piece_index |-> i,
                         data |-> TrueData(i, pm.pieces[i].length)])
    /\ net' = [net EXCEPT !.asked["L"] = @ \ {i}]
    /\ UNCHANGED <<pm, disk, nonSwarmVars>>

\* a swarm that was sent StartDownload before anything else
SwarmDownloadInit ==
    /\ \E n \in 1..MaxPieces :
          /\ pm = PieceManager_set_save_path(PieceManager_new(FileMetadata(n)))
          /\ sw = [GridSwarm_new EXCEPT !.scheduler = Scheduler_new(n), !.started = TRUE]
    /\ disk = NoFile
    /\ sess = [a \in Addrs |-> NoSession]
    /\ evq = <<>>
    /\ net = [asked |-> [a \in Addrs |-> {}], budget |-> MaxMsgs,
              lStage |-> "start", answered_bad |-> {}]

\* everything but the StartDownload command
SwarmDownloadNext ==
    \/ \E a \in Addrs : SwConnectPeer(a)
    \/ SwTick
    \/ SwHandleEvent
    \/ \E a \in Addrs : PeerCommand(a)
    \/ MSend
    \/ LBitfield
    \/ \E i \in DOMAIN pm.pieces : LAnswer(i)

\* a download in which remote M also chokes and unchokes
SwarmChokeNext ==
    \/ SwarmDownloadNext
    \/ MChoke

SwarmNext ==
    \/ SwStartDownload
    \/ \E a \in Addrs : SwConnectPeer(a)
    \/ SwTick
    \/ SwHandleEvent
    \/ \E a \in Addrs : PeerCommand(a)
    \/ MSend
    \/ LBitfield
    \/ \E i \in DOMAIN pm.pieces : LAnswer(i)

\* what the runtime and remote L keep doing: the swarm loop takes its ticks
\* and peer events, every peer task takes its commands, L announces itself
\* and answers
SwarmFairness ==
    /\ WF_vars(SwTick)
    /\ WF_vars(SwHandleEvent)
    /\ \A a \in Addrs : WF_vars(PeerCommand(a))
    /\ WF_vars(LBitfield)
    /\ WF_vars(\E i \in DOMAIN pm.pieces : LAnswer(i))

(***************************************************************************)
(* grid/swarm.rs : the connection permits of GridSwarm                     *)
(* connection_semaphore and the peer tasks that hold its permits, counted: *)
(* every connect goes to an address not connected before, so the session   *)
(* table does not refuse it.                                               *)
(***************************************************************************)
\* Semaphore::try_acquire_owned that hands out a permit it does not have
Semaphore_try_acquire_owned_Unchecked(permits) ==
    [ok |-> TRUE, permits |-> permits - 1]

\* Semaphore::try_acquire_owned
Semaphore_try_acquire_owned(permits) ==
    IF permits > 0 THEN [ok |-> TRUE, permits |-> permits - 1]
    ELSE [ok |-> FALSE, permits |-> permits]

\* GridSwarm::new: Semaphore::new(50), no peer task
ConnInit == conn = [permits |-> MaxPeers, live |-> 0, last |-> "none"]

\* the part below, were the permit of a failed attempt not dropped at the
\* return
OpenSession_Leaky(c, made, done, failed) ==
    LET p == Semaphore_try_acquire_owned(c.permits) IN
    IF ~p.ok THEN [c EXCEPT !.last = "refused"]
    ELSE IF made THEN [c EXCEPT !.permits = p.permits, !.live = @ + 1, !.last = done]
    ELSE [c EXCEPT !.permits = p.permits, !.last = failed]

\* the part connect_to_peer and handle_incoming_connection share: the
\* permit, the connection attempt, Peer::new and the spawn of its task
\* (which owns the permit), or the permit dropped at the return
OpenSession(c, made, done, failed) ==
    LET p == Semaphore_try_acquire_owned(c.permits) IN
    IF ~p.ok THEN [c EXCEPT !.last = "refused"]
    ELSE IF made THEN [c EXCEPT !.permits = p.permits, !.live = @ + 1, !.last = done]
    ELSE [c EXCEPT !.last = failed]

\* connect_to_peer(addr)
ConnOutbound ==
    /\ \E made \in BOOLEAN :
          conn' = OpenSession(conn, made, "connected", "connect_failed")
    /\ UNCHANGED nonConnVars

\* handle_incoming_connection(incoming)
ConnInbound ==
    /\ \E made \in BOOLEAN :
          conn' = OpenSession(conn, made, "accepted", "accept_failed")
    /\ UNCHANGED nonConnVars

\* peer.run() returns in a spawned task: drop(permit)
ConnPeerRunEnds ==
    /\ conn.live > 0
    /\ conn' = [conn EXCEPT !.live = @ - 1, !.permits = @ + 1, !.last = "ended"]
    /\ UNCHANGED nonConnVars

ConnNext ==
    \/ ConnOutbound
    \/ ConnInbound
    \/ ConnPeerRunEnds

(***************************************************************************)
(* grid/peer.rs : the choke and interest flags of one Peer                 *)
(* One peer task in its message loop.  The remote sends the messages that  *)
(* touch the flags; the swarm sends the commands swarm.rs sends            *)
(* (SendMessage only: nothing sends SetChoked or SetInterested); what the  *)
(* task writes goes to the stream out, which the remote reads.             *)
(***************************************************************************)
\* PeerState::new
PeerState_new ==
    [am_choking      |-> TRUE,
     am_interested   |-> FALSE,
     peer_choking    |-> TRUE,
     peer_interested |-> FALSE]

\* the GridMessages a remote sends that handle_message has a flag arm for,
\* with KeepAlive
RemoteMessages == {"Choke", "Unchoke", "Interested", "NotInterested", "Request", "KeepAlive"}

\* the messages GridSwarm hands to a peer: broadcast_have, request_piece, send_piece
SwarmMessages == {"Have", "Request", "Piece"}

NoEvent == "none"

\* Peer::handle_message: the new flags, the PeerEvent sent to the swarm and
\* the messages written to the remote
Peer_handle_message_flags(st, msg) ==
    CASE msg = "Choke" ->
            [state |-> [st EXCEPT !.peer_choking = TRUE], event |-> "ChokeChanged", sent |-> <<>>]
      [] msg = "Unchoke" ->
            [state |-> [st EXCEPT !.peer_choking = FALSE], event |-> "ChokeChanged", sent |-> <<>>]
      [] msg = "Interested" ->
            [state |-> [st EXCEPT !.peer_interested = TRUE], event |-> "InterestChanged", sent |-> <<>>]
      [] msg = "NotInterested" ->
            [state |-> [st EXCEPT !.peer_interested = FALSE], event |-> "InterestChanged", sent |-> <<>>]
      [] msg = "Request" ->
            [state |-> st,
             event |-> IF st.am_choking THEN NoEvent ELSE "RequestReceived",
             sent  |-> <<>>]
      [] OTHER ->
            [state |-> st, event |-> NoEvent, sent |-> <<>>]

\* Peer::new and the start of message_loop
\* silent counts the keep-alive ticks since the last inbound message
ChokeInit ==
    peer = [state |-> PeerState_new, out |-> <<>>, last |-> "none", event |-> NoEvent,
            silent |-> 0]

\* message_loop, arm 2: a message of the remote arrives
ChokeReceive(msg) ==
    /\ LET r == Peer_handle_message_flags(peer.state, msg) IN
          /\ Len(peer.out) + Len(r.sent) <= MaxOut
          /\ peer' = [state  |-> r.state,
                      out    |-> peer.out \o r.sent,
                      last   |-> msg,
                      event  |-> r.event,
                      silent |-> 0]
    /\ UNCHANGED nonPeerVars

\* message_loop, arm 1: PeerCommand::SendMessage(msg) from the swarm
ChokeSendMessage(msg) ==
    /\ Len(peer.out) < MaxOut
    /\ peer' = [peer EXCEPT !.out = Append(@, msg), !.last = "command", !.event = NoEvent]
    /\ UNCHANGED nonPeerVars

\* message_loop, arm 3: the keep-alive interval
ChokeKeepAlive ==
    /\ Len(peer.out) < MaxOut
    /\ peer.silent < MaxSilentTicks
    /\ peer' = [peer EXCEPT !.out = Append(@, "KeepAlive"), !.last = "tick", !.event = NoEvent,
                            !.silent = @ + 1]
    /\ UNCHANGED nonPeerVars

\* the remote reads a message from the stream
ChokeRemoteReads ==
    /\ peer.out # <<>>
    /\ peer' = [peer EXCEPT !.out = Tail(@)]
    /\ UNCHANGED nonPeerVars

ChokeNext ==
    \/ \E msg \in RemoteMessages : ChokeReceive(msg)
    \/ \E msg \in SwarmMessages : ChokeSendMessage(msg)
    \/ ChokeKeepAlive
    \/ ChokeRemoteReads

(***************************************************************************)
(* grid/dht.rs : KBucket, and bootstrap/dht.rs : a routing_table bucket    *)
(* One k-bucket of either routing table, nearly full or full, under        *)
(* add_node calls and the passing of time (in seconds).                    *)
(***************************************************************************)
\* RoutingEntry { node_id, addr, last_seen }
RoutingEntry(node_id, addr, last_seen) ==
    [node_id |-> node_id, addr |-> addr, last_seen |-> last_seen]

\* iter().position(|e| e.node_id == node_id): the first entry of the node, 0 if none
FindNode(entries, node_id) ==
    IF \E i \in DOMAIN entries : entries[i].node_id = node_id
    THEN Least({i \in DOMAIN entries : entries[i].node_id = node_id})
    ELSE 0

\* iter_mut().min_by_key(|e| e.last_seen): the first of the entries seen longest ago
OldestEntry(entries) ==
    Least({i \in DOMAIN entries :
              \A j \in DOMAIN entries : entries[i].last_seen <= entries[j].last_seen})

\* KBucket::add(entry) at the instant now
KBucket_add(entries, capacity, entry, now) ==
    LET i == FindNode(entries, entry.node_id) IN
    IF i # 0
    THEN [entries |-> [entries EXCEPT ![i].last_seen = entry.last_seen,
                                      ![i].addr = entry.addr],
          ret |-> TRUE]
    ELSE IF Len(entries) < capacity
    THEN [entries |-> Append(entries, entry), ret |-> TRUE]
    ELSE IF entries # <<>> /\ now - entries[OldestEntry(entries)].last_seen > ReplaceAge
    THEN [entries |-> [entries EXCEPT ![OldestEntry(entries)] = entry], ret |-> TRUE]
    ELSE [entries |-> entries, ret |-> FALSE]

\* the bucket part of bootstrap DhtNode::add_node(node_id, addr) at the instant now
DhtNode_add_node(entries, node_id, addr, now) ==
    LET i == FindNode(entries, node_id) IN
    IF i # 0
    THEN [entries EXCEPT ![i].last_seen = now, ![i].addr = addr]
    ELSE IF Len(entries) < BootBucketCapacity
    THEN Append(entries, RoutingEntry(node_id, addr, now))
    ELSE entries

\* the addresses a node is heard from
NodeAddrs == {"a", "b"}

\* the nodes that call in: two of the bucket and two new ones
CallingNodes == {1, 2, KBucketCapacity + 1, KBucketCapacity + 2}

\* a bucket filled by n nodes heard at the instant 0
FilledBucket(n) == [i \in 1..n |-> RoutingEntry(i, "a", 0)]

KbIdle == kb = [impl |-> "grid", entries |-> <<>>, now |-> 0, ret |-> "none"]

\* KBucket::new(20), or a bucket of the bootstrap node's routing_table,
\* after its first nodes
KbInit ==
    \E impl \in {"grid", "bootstrap"}, free \in 0..MaxFree :
       kb = [impl    |-> impl,
             entries |-> FilledBucket(KBucketCapacity - free),
             now     |-> 0,
             ret     |-> "none"]

\* grid DhtNode::add_node(node_id, addr): KBucket::add
KbGridAddNode(node_id, addr) ==
    /\ kb.impl = "grid"
    /\ LET r == KBucket_add(kb.entries, KBucketCapacity,
                            RoutingEntry(node_id, addr, kb.now), kb.now)
       IN kb' = [kb EXCEPT !.entries = r.entries,
                           !.ret = IF r.ret THEN "true" ELSE "false"]
    /\ UNCHANGED nonKbVars

\* bootstrap DhtNode::add_node(node_id, addr)
KbBootAddNode(node_id, addr) ==
    /\ kb.impl = "bootstrap"
    /\ kb' = [kb EXCEPT !.entries = DhtNode_add_node(kb.entries, node_id, addr, kb.now),
                        !.ret = "unit"]
    /\ UNCHANGED nonKbVars

\* time passes
KbTick ==
    /\ kb.now + TimeStep <= MaxNow
    /\ kb' = [kb EXCEPT !.now = @ + TimeStep]
    /\ UNCHANGED nonKbVars

KbNext ==
    \/ \E node_id \in CallingNodes, addr \in NodeAddrs : KbGridAddNode(node_id, addr)
    \/ \E node_id \in CallingNodes, addr \in NodeAddrs : KbBootAddNode(node_id, addr)
    \/ KbTick

(***************************************************************************)
(* bootstrap/dht.rs : DhtNode::providers, and grid/dht.rs :                *)
(* DhtService::providers_cache                                             *)
(* The provider list of one info-hash in either store, nearly full or      *)
(* full, under Announce messages and the passing of time (in seconds).     *)
(***************************************************************************)
\* ProviderInfo { node_id, addr, announced_at }
ProviderInfo(node_id, addr, announced_at) ==
    [node_id |-> node_id, addr |-> addr, announced_at |-> announced_at]

\* providers.retain(|p| p.node_id != node_id)
RetainOthers(providers, node_id) ==
    SelectSeq(providers, LAMBDA p : p.node_id # node_id)

RECURSIVE LatestFirst(_, _)
\* the records announced at the instants of the set times, the latest
\* instant first, those of one instant in the order of the list
LatestFirst(providers, times) ==
    IF times = {} THEN <<>>
    ELSE LET t == CHOOSE x \in times : \A y \in times : x >= y
         IN SelectSeq(providers, LAMBDA p : p.announced_at = t)
               \o LatestFirst(providers, times \ {t})

\* providers.sort_by_key(|p| Reverse(p.announced_at)), a stable sort
SortByAnnouncedDesc(providers) ==
    LatestFirst(providers, {providers[i].announced_at : i \in DOMAIN providers})

\* providers.truncate(len)
Truncate(providers, len) == SubSeq(providers, 1, Min(len, Len(providers)))

\* bootstrap DhtNode::add_provider(info_hash, node_id, addr) at the instant now
DhtNode_add_provider(providers, node_id, addr, now) ==
    LET pushed == Append(RetainOthers(providers, node_id), ProviderInfo(node_id, addr, now))
    IN IF Len(pushed) > ProviderCap
       THEN Truncate(SortByAnnouncedDesc(pushed), ProviderCap)
       ELSE pushed

\* grid DhtService::handle_message, the Announce arm, on the cache entry of
\* the info-hash
DhtService_announce(entry, sender_id, provider_addr, now) ==
    Append(RetainOthers(entry, sender_id), ProviderInfo(sender_id, provider_addr, now))

\* the nodes that announce: one of the list and two new ones
AnnouncingNodes == {1, ProviderCap + 1, ProviderCap + 2}

\* the address the announcing nodes are heard from: SocketAddr::new(from.ip(), port)
NewAddr == "b"

\* the list after n nodes announced at the instant 0
AnnouncedBy(n) == [i \in 1..n |-> ProviderInfo(i, "a", 0)]

ProvIdle == prov = [impl |-> "grid", providers |-> <<>>, now |-> 0]

\* the provider list of an info-hash after its first announces
ProvInit ==
    \E impl \in {"grid", "bootstrap"}, free \in 0..MaxFree :
       prov = [impl      |-> impl,
               providers |-> AnnouncedBy(ProviderCap - free),
               now       |-> 0]

\* bootstrap DhtNode::handle_message, the Announce arm
ProvBootAnnounce(node_id) ==
    /\ prov.impl = "bootstrap"
    /\ prov' = [prov EXCEPT !.providers = DhtNode_add_provider(@, node_id, NewAddr, prov.now)]
    /\ UNCHANGED nonProvVars

\* grid DhtService::handle_message, the Announce arm
ProvGridAnnounce(node_id) ==
    /\ prov.impl = "grid"
    /\ Len(prov.providers) < ProviderCap + MaxOver
    /\ prov' = [prov EXCEPT !.providers = DhtService_announce(@, node_id, NewAddr, prov.now)]
    /\ UNCHANGED nonProvVars

\* time passes
ProvTick ==
    /\ prov.now + TimeStep <= MaxNow
    /\ prov' = [prov EXCEPT !.now = @ + TimeStep]
    /\ UNCHANGED nonProvVars

ProvNext ==
    \/ \E node_id \in AnnouncingNodes : ProvBootAnnounce(node_id)
    \/ \E node_id \in AnnouncingNodes : ProvGridAnnounce(node_id)
    \/ ProvTick

(***************************************************************************)
(* bootstrap/dht.rs : the stats counters of DhtNode                        *)
(* The run loop of one bootstrap DHT node: datagrams arrive, the cleanup   *)
(* interval ticks, time passes (in seconds).  The routing table is kept as *)
(* the list of its entries; the few nodes that call never fill a bucket.   *)
(***************************************************************************)
\* the DHT counters of StatsCollector::new
NoStats == [dht_messages_received |-> 0, dht_messages_sent |-> 0,
            nodes_in_routing_table |-> 0, providers_stored |-> 0]

\* the DhtMessages a node receives
DhtMessages == {"Ping", "Pong", "FindNode", "FindNodeResponse", "GetProviders",
                "GetProvidersResponse", "Announce", "AnnounceResponse"}

\* the messages handle_message answers with a send_message
Answered == {"Ping", "FindNode", "GetProviders", "Announce"}

\* the nodes that send datagrams, and the node their responses name
DhtSenders == {1, 2}
NamedNode == 3

\* the nodes handle_message hands to add_node, in order
NodesOf(msg, sender_id) ==
    IF msg = "AnnounceResponse" THEN <<>>
    ELSE IF msg \in {"FindNodeResponse", "GetProvidersResponse"} THEN <<sender_id, NamedNode>>
    ELSE <<sender_id>>

\* DhtNode::add_node(node_id, addr) at the instant now, on the table and the stats
DhtNode_add_node_stats(d, node_id) ==
    LET i == FindNode(d.table, node_id) IN
    IF i # 0
    THEN [d EXCEPT !.table[i].last_seen = d.now]
    ELSE [d EXCEPT !.table = Append(@, RoutingEntry(node_id, "a", d.now)),
                   !.stats.nodes_in_routing_table = @ + 1]

RECURSIVE AddNodes(_, _)
\* add_node for each node of the list
AddNodes(d, nodes) ==
    IF nodes = <<>> THEN d
    ELSE AddNodes(DhtNode_add_node_stats(d, Head(nodes)), Tail(nodes))

\* DhtNode::send_message: the datagram is sent or send_to fails
DhtNode_send_message(d, sent) ==
    IF sent THEN [d EXCEPT !.stats.dht_messages_sent = @ + 1] ELSE d

\* DhtNode::handle_message(msg, from)
DhtNode_handle_message(d, msg, sender_id, sent) ==
    LET counted  == [d EXCEPT !.stats.dht_messages_received = @ + 1]
        added    == AddNodes(counted, NodesOf(msg, sender_id))
        stored   == IF msg = "Announce"
                    THEN [added EXCEPT !.stats.providers_stored = @ + 1]
                    ELSE added
    IN IF msg \in Answered THEN DhtNode_send_message(stored, sent) ELSE stored

\* usize::saturating_sub
SaturatingSub(a, b) == IF a >= b THEN a - b ELSE 0

\* DhtNode::cleanup_stale_data, the routing table part
DhtNode_cleanup_stale_data(d) ==
    LET kept == SelectSeq(d.table, LAMBDA e : d.now - e.last_seen < StaleAge)
        removed_count == Len(d.table) - Len(kept)
    IN [d EXCEPT !.table = kept,
                 !.stats.nodes_in_routing_table =
                      IF removed_count > 0 THEN SaturatingSub(@, removed_count) ELSE @]

\* DhtNode::new
DstInit == dstat = [stats |-> NoStats, table |-> <<>>, now |-> 0, last |-> "new"]

\* run: socket.recv_from gives a datagram that deserializes
DstReceive(msg, sender_id, sent) ==
    /\ dstat.stats.dht_messages_received < MaxDatagrams
    /\ dstat' = [DhtNode_handle_message(dstat, msg, sender_id, sent) EXCEPT !.last = msg]
    /\ UNCHANGED nonDstVars

\* run: cleanup_interval.tick()
DstCleanup ==
    /\ dstat' = [DhtNode_cleanup_stale_data(dstat) EXCEPT !.last = "cleanup"]
    /\ UNCHANGED nonDstVars

\* time passes
DstTick ==
    /\ dstat.now + TimeStep <= MaxUptime
    /\ dstat' = [dstat EXCEPT !.now = @ + TimeStep, !.last = "tick"]
    /\ UNCHANGED nonDstVars

DstNext ==
    \/ \E msg \in DhtMessages, sender_id \in DhtSenders, sent \in BOOLEAN :
          DstReceive(msg, sender_id, sent)
    \/ DstCleanup
    \/ DstTick

(***************************************************************************)
(* grid/swarm.rs : the connection table of GridSwarm under repeated        *)
(* ConnectPeer commands                                                    *)
(* The swarm loop takes ConnectPeer commands for any address, also for one *)
(* it is connected to; each connection made gets a peer task of its own.   *)
(* A table entry holds the number of the task whose command channel it     *)
(* keeps; an event of a task is marked with that number, and out counts    *)
(* the PeerDisconnected events the swarm has sent for each task.           *)
(***************************************************************************)
\* GridSwarm::new: no entry, Semaphore::new(50), no peer task, no event
TabInit ==
    tab = [peers |-> <<>>, permits |-> MaxPeers, tasks |-> <<>>, evq |-> <<>>,
           out |-> <<>>, last |-> "none"]

\* Peer::new for a connection to addr, and the spawn of Peer::run
PeerTask(addr) == [addr |-> addr, peer_id |-> PeerKey(addr), status |-> "live"]

\* GridSwarm::connect_to_peer
GridSwarm_connect_to_peer(t, addr, connected) ==
    IF AddrKey(addr) \in DOMAIN t.peers THEN [t EXCEPT !.last = "already_connected"]
    ELSE LET p == Semaphore_try_acquire_owned(t.permits) IN
         IF ~p.ok THEN [t EXCEPT !.last = "refused"]
         ELSE IF connected
         THEN [t EXCEPT !.permits = p.permits,
                        !.tasks = Append(@, PeerTask(addr)),
                        !.peers = PutPeer(@, PeerKey(addr), Len(t.tasks) + 1),
                        !.out = Append(@, 0),
                        !.last = "connected"]
         ELSE [t EXCEPT !.last = "connect_failed"]

\* SwarmCommand::ConnectPeer(addr)
TabConnectPeer(addr) ==
    /\ Len(tab.tasks) < MaxTasks
    /\ \E connected \in BOOLEAN : tab' = GridSwarm_connect_to_peer(tab, addr, connected)
    /\ UNCHANGED nonTabVars

\* the task n reads a Handshake with the right info hash: handle_message
\* takes the remote's id and sends HandshakeComplete
TabHandshake(n) ==
    /\ tab.tasks[n].status = "live"
    /\ Len(tab.evq) < MaxTasks
    /\ tab' = [tab EXCEPT !.tasks[n].peer_id = HexId(tab.tasks[n].addr),
                          !.evq = Append(@, [type |-> "HandshakeComplete", task |-> n,
                                             peer_id |-> HexId(tab.tasks[n].addr)]),
                          !.last = "handshake"]
    /\ UNCHANGED nonTabVars

\* the message loop of task n ends (the stream or the command channel is
\* closed): the Disconnected event, then drop(permit)
TabTaskEnds(n) ==
    /\ tab.tasks[n].status = "live"
    /\ tab' = [tab EXCEPT !.tasks[n].status = "closed",
                          !.evq = Append(@, [type |-> "Disconnected", task |-> n,
                                             peer_id |-> tab.tasks[n].peer_id]),
                          !.permits = @ + 1,
                          !.last = "ended"]
    /\ UNCHANGED nonTabVars

\* peer_event_rx.recv(): handle_peer_event; the Disconnected arm sends
\* SwarmEvent::PeerDisconnected
TabHandleEvent ==
    /\ tab.evq # <<>>
    /\ LET e == Head(tab.evq) IN
          tab' = [tab EXCEPT !.evq = Tail(@),
                             !.peers = IF e.type = "Disconnected"
                                       THEN DropPeer(@, e.peer_id) ELSE @,
                             !.out[e.task] = IF e.type = "Disconnected" THEN @ + 1 ELSE @,
                             !.last = "event"]
    /\ UNCHANGED nonTabVars

\* GridSwarm::disconnect_peer(peer_id): the entry is removed, Disconnect is
\* sent to its task, SwarmEvent::PeerDisconnected is sent
GridSwarm_disconnect_peer(t, peer_id) ==
    IF peer_id \in DOMAIN t.peers
    THEN [t EXCEPT !.peers = DropPeer(@, peer_id),
                   !.out[t.peers[peer_id]] = @ + 1,
                   !.last = "disconnect_peer"]
    ELSE [t EXCEPT !.last = "disconnect_peer"]

\* SwarmCommand::DisconnectPeer(peer_id)
TabDisconnectPeer(addr) ==
    /\ tab.last # "disconnect_peer"
    /\ tab' = GridSwarm_disconnect_peer(tab, PeerKey(addr))
    /\ UNCHANGED nonTabVars

TabNext ==
    \/ \E addr \in Addrs : TabConnectPeer(addr)
    \/ \E n \in DOMAIN tab.tasks : TabHandshake(n)
    \/ \E n \in DOMAIN tab.tasks : TabTaskEnds(n)
    \/ TabHandleEvent
    \/ \E addr \in Addrs : TabDisconnectPeer(addr)

(***************************************************************************)
(* bootstrap/dht.rs, grid/dht.rs : the 60 s pass of a DHT node             *)
(* One DHT node of either implementation with one bucket and the provider  *)
(* lists of its info-hashes: nodes call in and announce, the interval of   *)
(* the run loop ticks, time passes (in seconds).                           *)
(***************************************************************************)
\* the nodes that call in and the info-hashes they announce
JanNodes == {1, 2}
JanHashes == {"h"}

\* the seconds between two looks at the clock
JanStep == StaleAge

\* bootstrap DhtNode::cleanup_stale_data on the table and the providers at
\* the instant now
DhtNode_cleanup(j) ==
    LET fresh(h) == SelectSeq(j.providers[h], LAMBDA p : j.now - p.announced_at < ProviderAge)
    IN [j EXCEPT !.table = SelectSeq(@, LAMBDA e : j.now - e.last_seen < StaleAge),
                 !.providers = [h \in {x \in DOMAIN j.providers : fresh(x) # <<>>} |-> fresh(h)]]

\* grid DhtService::refresh_routing_table: a Ping to the first entry of the
\* bucket
DhtService_refresh_routing_table(j) ==
    [j EXCEPT !.pinged = IF j.table = <<>> THEN 0 ELSE j.table[1].node_id]

\* PeerDiscoveredEvent of add_node
PeerDiscoveredEvent(node_id, addr) ==
    [node_id |-> HexId(node_id), address |-> addr, source |-> "dht"]

\* the events bootstrap DhtNode::add_node(node_id, addr) sends on
\* peer_discovered_tx
DhtNode_add_node_events(entries, node_id, addr) ==
    IF FindNode(entries, node_id) = 0 /\ Len(entries) < BootBucketCapacity
    THEN <<PeerDiscoveredEvent(node_id, addr)>>
    ELSE <<>>

\* the events grid DhtService::add_node(node_id, addr) sends: none
DhtService_add_node_events(entries, node_id, addr) == <<>>

\* a DHT node that hears nothing
JanIdle ==
    jan = [impl |-> "bootstrap", table |-> <<>>, providers |-> <<>>, now |-> 0, pinged |-> 0,
           emitted |-> <<>>, last |-> "new"]

\* DhtNode::new, DhtService::new; emitted holds the events the last step sent
JanInit ==
    \E impl \in {"grid", "bootstrap"} :
        jan = [impl |-> impl, table |-> <<>>, providers |-> <<>>, now |-> 0, pinged |-> 0,
               emitted |-> <<>>, last |-> "new"]

\* a datagram of node_id reaches add_node
JanAddNode(node_id) ==
    /\ jan' = [jan EXCEPT
                 !.table = IF jan.impl = "bootstrap"
                           THEN DhtNode_add_node(@, node_id, "a", jan.now)
                           ELSE KBucket_add(@, KBucketCapacity,
                                            RoutingEntry(node_id, "a", jan.now), jan.now).entries,
                 !.emitted = IF jan.impl = "bootstrap"
                             THEN DhtNode_add_node_events(jan.table, node_id, "a")
                             ELSE DhtService_add_node_events(jan.table, node_id, "a"),
                 !.last = "add_node"]
    /\ UNCHANGED nonJanVars

\* an Announce of node_id for info_hash
JanAnnounce(node_id, info_hash) ==
    /\ LET old == IF info_hash \in DOMAIN jan.providers THEN jan.providers[info_hash] ELSE <<>>
           new == IF jan.impl = "bootstrap"
                  THEN DhtNode_add_provider(old, node_id, "a", jan.now)
                  ELSE DhtService_announce(old, node_id, "a", jan.now)
       IN jan' = [jan EXCEPT !.providers = PutPeer(@, info_hash, new), !.emitted = <<>>,
                           !.last = "announce"]
    /\ UNCHANGED nonJanVars

\* run: cleanup_interval.tick() of the bootstrap node, refresh_interval.tick()
\* of the grid node
JanPass ==
    /\ jan' = [(IF jan.impl = "bootstrap" THEN DhtNode_cleanup(jan)
                ELSE DhtService_refresh_routing_table(jan))
                 EXCEPT !.emitted = <<>>, !.last = "pass"]
    /\ UNCHANGED nonJanVars

\* time passes
JanTick ==
    /\ jan.now + JanStep <= MaxJanUptime
    /\ jan' = [jan EXCEPT !.now = @ + JanStep, !.emitted = <<>>, !.last = "tick"]
    /\ UNCHANGED nonJanVars

JanNext ==
    \/ \E node_id \in JanNodes : JanAddNode(node_id)
    \/ \E node_id \in JanNodes, info_hash \in JanHashes : JanAnnounce(node_id, info_hash)
    \/ JanPass
    \/ JanTick

(***************************************************************************)
(* grid/hybrid_discovery.rs : the peer cache of HybridDiscovery            *)
(* The run loop of one HybridDiscovery: the mDNS poll brings a snapshot of *)
(* peers, DHT PeerFound events come in, the cleanup interval ticks, time   *)
(* passes (in seconds).  emitted holds the events the last step sent, seen *)
(* the peers it was shown.                                                 *)
(***************************************************************************)
\* the peers that are discovered, and the addresses they are seen at
HybPeerIds == {1, 2}
HybAddrs == {"a", "b"}

\* DiscoveredPeer
DiscoveredPeer(peer_id, address, source, now) ==
    [peer_id |-> peer_id, address |-> address, source |-> source,
     discovered_at |-> now, last_seen |-> now]

RECURSIVE HybridDiscovery_poll_mdns(_, _, _)
\* HybridDiscovery::poll_mdns: the for loop over mdns_peers, all of them seen
\* at address
HybridDiscovery_poll_mdns(h, mdns_peers, address) ==
    IF mdns_peers = <<>> THEN h
    ELSE LET peer_id == Head(mdns_peers)
             next == IF peer_id \in DOMAIN h.peers
                     THEN [h EXCEPT !.peers[peer_id].last_seen = h.now,
                                    !.peers[peer_id].address = address]
                     ELSE LET discovered == DiscoveredPeer(peer_id, address, "Mdns", h.now)
                          IN [h EXCEPT !.peers = PutPeer(@, peer_id, discovered),
                                       !.emitted = Append(@, [type |-> "PeerDiscovered",
                                                              peer_id |-> peer_id])]
         IN HybridDiscovery_poll_mdns(next, Tail(mdns_peers), address)

\* HybridDiscovery::handle_dht_event, arm PeerFound
HybridDiscovery_handle_dht_event(h, peer_id, addr) ==
    IF peer_id \notin DOMAIN h.peers
    THEN LET discovered == DiscoveredPeer(peer_id, addr, "Dht", h.now)
         IN [h EXCEPT !.peers = PutPeer(@, peer_id, discovered),
                      !.emitted = Append(@, [type |-> "PeerDiscovered", peer_id |-> peer_id])]
    ELSE h

\* cleanup_stale_peers: the ids whose last_seen.elapsed() is at or over the
\* timeout
StalePeers_Inclusive(peers, now) ==
    {id \in DOMAIN peers : now - peers[id].last_seen >= HybTimeout}

\* cleanup_stale_peers: the ids of the filter p.last_seen.elapsed() > timeout
StalePeers(peers, now) ==
    {id \in DOMAIN peers : now - peers[id].last_seen > HybTimeout}

\* HybridDiscovery::cleanup_stale_peers, the stale ids met in the order stale
HybridDiscovery_cleanup_stale_peers(h, stale) ==
    [h EXCEPT !.peers = [id \in DOMAIN h.peers \ {stale[i] : i \in DOMAIN stale} |-> h.peers[id]],
              !.emitted = [i \in DOMAIN stale |-> [type |-> "PeerLost", peer_id |-> stale[i]]]]

\* HybridDiscovery::new
HybInit == hyb = [peers |-> <<>>, now |-> 0, emitted |-> <<>>, seen |-> {}, last |-> "new"]

\* run: mdns_poll_interval.tick()
HybPollMdns ==
    /\ \E snapshot \in SUBSET HybPeerIds, address \in HybAddrs :
          \E mdns_peers \in Orderings(snapshot) :
             hyb' = [HybridDiscovery_poll_mdns([hyb EXCEPT !.emitted = <<>>], mdns_peers, address)
                        EXCEPT !.seen = snapshot, !.last = "poll_mdns"]
    /\ UNCHANGED nonHybVars

\* run: dht_event_rx.recv() gives PeerFound
HybPeerFound ==
    /\ \E peer_id \in HybPeerIds, addr \in HybAddrs :
          hyb' = [HybridDiscovery_handle_dht_event([hyb EXCEPT !.emitted = <<>>], peer_id, addr)
                     EXCEPT !.seen = {peer_id}, !.last = "peer_found"]
    /\ UNCHANGED nonHybVars

\* run: cleanup_interval.tick()
HybCleanup ==
    /\ \E stale \in Orderings(StalePeers(hyb.peers, hyb.now)) :
          hyb' = [HybridDiscovery_cleanup_stale_peers(hyb, stale)
                     EXCEPT !.seen = {}, !.last = "cleanup"]
    /\ UNCHANGED nonHybVars

\* time passes
HybTick ==
    /\ hyb.now + TimeStep <= MaxHybUptime
    /\ hyb' = [hyb EXCEPT !.now = @ + TimeStep, !.emitted = <<>>, !.seen = {}, !.last = "tick"]
    /\ UNCHANGED nonHybVars

HybNext ==
    \/ HybPollMdns
    \/ HybPeerFound
    \/ HybCleanup
    \/ HybTick

(***************************************************************************)
(* bootstrap/dht.rs : the run loop of DhtNode and its PeerDiscovered       *)
(* channel                                                                 *)
(* The loop handles one command, datagram or tick at a time and awaits the *)
(* handler before it selects again.  The service keeps the receiver of the *)
(* channel for as long as it runs; nothing calls poll_peer_discovered, so  *)
(* no step takes an event out.  chan counts the events in the channel.     *)
(***************************************************************************)
\* mpsc::Sender::send(event).await on a channel whose receiver is alive: the
\* event is queued, or the sender waits for room
Sender_send(d) ==
    IF d.chan < ChannelCap THEN [d EXCEPT !.chan = @ + 1] ELSE [d EXCEPT !.blocked = TRUE]

\* DhtNode::add_node for a node that is new to a bucket with room (inserted)
\* or for one the bucket holds
DhtNode_add_node_send(d, inserted) == IF inserted THEN Sender_send(d) ELSE d

\* start_internal: mpsc::channel(100), DhtNode::new, spawn of DhtNode::run
DqInit == dq = [chan |-> 0, blocked |-> FALSE, queued |-> FALSE, status |-> "running",
                last |-> "new"]

\* run: socket.recv_from gives a datagram, handle_message calls add_node
DqReceive(inserted) ==
    /\ dq.status = "running"
    /\ ~dq.blocked
    /\ dq' = [DhtNode_add_node_send(dq, inserted) EXCEPT !.last = "datagram"]
    /\ UNCHANGED nonDqVars

\* run: cleanup_interval.tick()
DqCleanup ==
    /\ dq.status = "running"
    /\ ~dq.blocked
    /\ dq.last # "cleanup"
    /\ dq' = [dq EXCEPT !.last = "cleanup"]
    /\ UNCHANGED nonDqVars

\* stop_internal: dht_handle.shutdown()
DqSendShutdown ==
    /\ dq.status = "running"
    /\ ~dq.queued
    /\ dq' = [dq EXCEPT !.queued = TRUE, !.last = "shutdown_sent"]
    /\ UNCHANGED nonDqVars

\* run: command_rx.recv() gives Shutdown
DqShutdown ==
    /\ dq.status = "running"
    /\ ~dq.blocked
    /\ dq.queued
    /\ dq' = [dq EXCEPT !.status = "stopped", !.last = "shutdown"]
    /\ UNCHANGED nonDqVars

\* cleanup, after stop_internal has sent Shutdown: dht_task.abort() and the
\* drop of the receiver
DqAbort ==
    /\ dq.status = "running"
    /\ dq.queued
    /\ dq' = [dq EXCEPT !.status = "aborted", !.blocked = FALSE, !.last = "abort"]
    /\ UNCHANGED nonDqVars

DqNext ==
    \/ \E inserted \in BOOLEAN : DqReceive(inserted)
    \/ DqCleanup
    \/ DqSendShutdown
    \/ DqShutdown
    \/ DqAbort

\* what the runtime keeps doing: the loop takes the commands and ticks it
\* is ready for
DqFairness == WF_vars(DqShutdown) /\ WF_vars(DqCleanup)

(***************************************************************************)
(* grid/bitfield.rs : Bitfield                                             *)
(* One Bitfield value and the operations that make or change it.  A byte   *)
(* is a number of 0..255; the bytes a peer sends are any bytes.            *)
(***************************************************************************)
\* (b >> k) & 1 on a u8
BitOf(b, k) == (b \div 2^k) % 2

\* b | (1 << k) and b & !(1 << k) on a u8
SetBit(b, k) == IF BitOf(b, k) = 1 THEN b ELSE b + 2^k
ClearBit(b, k) == IF BitOf(b, k) = 1 THEN b - 2^k ELSE b

RECURSIVE OrBits(_, _, _)
\* the bits 0..k of a | b
OrBits(a, b, k) ==
    LET bit == IF BitOf(a, k) = 1 \/ BitOf(b, k) = 1 THEN 2^k ELSE 0
    IN IF k = 0 THEN bit ELSE bit + OrBits(a, b, k - 1)

\* a | b on two u8
ByteOr(a, b) == OrBits(a, b, 7)

\* 0xFF << k on a u8, k < 8
ShlFF(k) == (255 * 2^k) % 256

\* (length + 7) / 8
ByteLen(length) == (length + 7) \div 8

\* Bitfield::new(length)
Bitfield_new(length) == [bytes |-> [i \in 1..ByteLen(length) |-> 0], length |-> length]

\* Bitfield::full(length)
Bitfield_full(length) ==
    LET byte_len == ByteLen(length)
        remainder == length % 8
    IN [bytes  |-> [i \in 1..byte_len |->
                       IF remainder > 0 /\ i = byte_len THEN ShlFF(8 - remainder) ELSE 255],
        length |-> length]

\* Bitfield::has(index)
Bitfield_has(b, index) ==
    IF index >= b.length THEN FALSE
    ELSE BitOf(b.bytes[(index \div 8) + 1], 7 - (index % 8)) = 1

\* Bitfield::set(index, value); mark and unmark are set with true and false
Bitfield_set(b, index, value) ==
    IF index >= b.length THEN b
    ELSE LET byte_index == (index \div 8) + 1
             bit_index == 7 - (index % 8)
         IN [b EXCEPT !.bytes[byte_index] =
                         IF value THEN SetBit(@, bit_index) ELSE ClearBit(@, bit_index)]

\* Bitfield::from_bytes(bytes, length), called with bytes.len() >= expected_len
Bitfield_from_bytes(bytes, length) == [bytes |-> bytes, length |-> length]

\* Bitfield::merge(other), called with other.length = self.length: the zip
\* stops at the shorter vector
Bitfield_merge(b, other) ==
    [b EXCEPT !.bytes = [i \in DOMAIN b.bytes |->
                            IF i \in DOMAIN other.bytes THEN ByteOr(b.bytes[i], other.bytes[i])
                            ELSE b.bytes[i]]]

\* the bytes a peer puts into a Bitfield message
WireBytes == {0, 1, 128, 255}

\* the byte vectors a Bitfield message of length bits may carry
WireVectors(length) == [1..ByteLen(length) -> WireBytes]

\* the Bitfields merge is handed
OtherBitfields(length) ==
    {Bitfield_new(length), Bitfield_full(length)}
        \cup {Bitfield_from_bytes(v, length) : v \in WireVectors(length)}

BfIdle == bf = [bits |-> Bitfield_new(0), last |-> "new"]

\* Bitfield::new(length)
BfInit == \E length \in 0..MaxBits : bf = [bits |-> Bitfield_new(length), last |-> "new"]

BfFull ==
    /\ \E length \in 0..MaxBits : bf' = [bits |-> Bitfield_full(length), last |-> "full"]
    /\ UNCHANGED nonBfVars

BfSet ==
    /\ \E index \in 0..MaxBits, value \in BOOLEAN :
          bf' = [bits |-> Bitfield_set(bf.bits, index, value), last |-> "set"]
    /\ UNCHANGED nonBfVars

BfMerge ==
    /\ \E other \in OtherBitfields(bf.bits.length) :
          bf' = [bits |-> Bitfield_merge(bf.bits, other), last |-> "merge"]
    /\ UNCHANGED nonBfVars

BfFromBytes ==
    /\ \E length \in 0..MaxBits :
          \E bytes \in WireVectors(length) :
             bf' = [bits |-> Bitfield_from_bytes(bytes, length), last |-> "from_bytes"]
    /\ UNCHANGED nonBfVars

BfNext ==
    \/ BfFull
    \/ BfSet
    \/ BfMerge
    \/ BfFromBytes

\* the operations but from_bytes, and merge with Bitfields made by them
BfLocalNext ==
    \/ BfFull
    \/ BfSet
    \/ \E other \in {Bitfield_new(bf.bits.length), Bitfield_full(bf.bits.length)} :
          /\ bf' = [bits |-> Bitfield_merge(bf.bits, other), last |-> "merge"]
          /\ UNCHANGED nonBfVars

(***************************************************************************)
(* Specifications.                                                         *)
(***************************************************************************)
\* the subsystems added to the core ones, each at rest
AuxIdle == HostIdle /\ AppInit /\ RcvIdle /\ RdIdle /\ ConnInit /\ ChokeInit /\ KbIdle /\ ProvIdle /\ DstInit /\ TabInit /\ JanIdle /\ HybInit /\ DqInit /\ BfIdle

\* the core subsystems, each at rest
CoreIdle == SchedInit /\ BootIdle /\ MsIdle /\ PmIdle /\ SwarmIdle

Init == SchedInit /\ BootIdle /\ MsIdle /\ PmIdle /\ SwarmIdle /\ AuxIdle

Next == SchedNext \/ BootNext \/ MsNext \/ PmNext \/ SwarmNext \/ HostNext \/ AppNext \/ RcvNext \/ RdNext \/ ConnNext \/ ChokeNext \/ KbNext \/ ProvNext \/ DstNext \/ PmPendingNext \/ TabNext \/ JanNext \/ HybNext \/ DqNext \/ BfNext

Spec == Init /\ [][Next]_vars

\* the Scheduler driven through its methods
SchedSpec == Init /\ [][SchedNext]_vars

\* the bootstrap service under every configuration
BootSpecInit == SchedInit /\ BootInit /\ MsIdle /\ PmIdle /\ SwarmIdle /\ AuxIdle

BootSpec == BootSpecInit /\ [][BootNext]_vars

BootFairSpec == BootSpecInit /\ [][BootNext]_vars /\ WF_vars(BootProgress)

\* one send_file call of the multi-stream sender
MsSpecInit == SchedInit /\ BootIdle /\ MsInit /\ PmIdle /\ SwarmIdle /\ AuxIdle

MsSpec == MsSpecInit /\ [][MsNext]_vars

\* a PieceManager driven through its methods
PmSpecInit == SchedInit /\ BootIdle /\ MsIdle /\ PmInit /\ SwarmIdle /\ AuxIdle

PmSpec == PmSpecInit /\ [][PmNext]_vars

\* the same PieceManager with the methods of its pending map
PmPendingSpec == PmSpecInit /\ [][PmPendingNext]_vars

\* a GridSwarm with its peer tasks and two remote peers
SwarmSpecInit == SchedInit /\ BootIdle /\ MsIdle /\ PmIdle /\ SwarmInit /\ AuxIdle

SwarmSpec == SwarmSpecInit /\ [][SwarmNext]_vars

\* a download that was started first, under a fair runtime and a fair L
SwarmDownloadSpecInit == SchedInit /\ BootIdle /\ MsIdle /\ PmIdle /\ SwarmDownloadInit /\ AuxIdle

SwarmChokeSpec == SwarmDownloadSpecInit /\ [][SwarmChokeNext]_vars

SwarmFairSpec == SwarmDownloadSpecInit /\ [][SwarmDownloadNext]_vars /\ SwarmFairness

\* service instances starting and stopping on one host
HostSpecInit == CoreIdle /\ HostInit /\ AppInit /\ RcvIdle /\ RdIdle /\ ConnInit /\ ChokeInit /\ KbIdle /\ ProvIdle /\ DstInit /\ TabInit /\ JanIdle /\ HybInit /\ DqInit /\ BfIdle

HostSpec == HostSpecInit /\ [][HostNext]_vars

\* the application's bootstrap commands
AppSpecInit == CoreIdle /\ HostIdle /\ AppInit /\ RcvIdle /\ RdIdle /\ ConnInit /\ ChokeInit /\ KbIdle /\ ProvIdle /\ DstInit /\ TabInit /\ JanIdle /\ HybInit /\ DqInit /\ BfIdle

AppSpec == AppSpecInit /\ [][AppNext]_vars

\* one receive_file call of the multi-stream receiver
RcvSpecInit == CoreIdle /\ HostIdle /\ AppInit /\ RcvInit /\ RdIdle /\ ConnInit /\ ChokeInit /\ KbIdle /\ ProvIdle /\ DstInit /\ TabInit /\ JanIdle /\ HybInit /\ DqInit /\ BfIdle

RcvSpec == RcvSpecInit /\ [][RcvNext]_vars

\* a file sender reading blocks while its file may change
RdSpecInit == CoreIdle /\ HostIdle /\ AppInit /\ RcvIdle /\ RdInit /\ ConnInit /\ ChokeInit /\ KbIdle /\ ProvIdle /\ DstInit /\ TabInit /\ JanIdle /\ HybInit /\ DqInit /\ BfIdle

RdSpec == RdSpecInit /\ [][RdNext]_vars

\* the swarm's connection permits under any sequence of connects and accepts
ConnSpecInit == CoreIdle /\ HostIdle /\ AppInit /\ RcvIdle /\ RdIdle /\ ConnInit /\ ChokeInit /\ KbIdle /\ ProvIdle /\ DstInit /\ TabInit /\ JanIdle /\ HybInit /\ DqInit /\ BfIdle

ConnSpec == ConnSpecInit /\ [][ConnNext]_vars

\* one peer task under any messages of its remote and of the swarm
ChokeSpecInit == CoreIdle /\ HostIdle /\ AppInit /\ RcvIdle /\ RdIdle /\ ConnInit /\ ChokeInit /\ KbIdle /\ ProvIdle /\ DstInit /\ TabInit /\ JanIdle /\ HybInit /\ DqInit /\ BfIdle

ChokeSpec == ChokeSpecInit /\ [][ChokeNext]_vars

\* one k-bucket under add_node calls as time passes
KbSpecInit == CoreIdle /\ HostIdle /\ AppInit /\ RcvIdle /\ RdIdle /\ ConnInit /\ ChokeInit /\ KbInit /\ ProvIdle /\ DstInit /\ TabInit /\ JanIdle /\ HybInit /\ DqInit /\ BfIdle

KbSpec == KbSpecInit /\ [][KbNext]_vars

\* the provider list of one info-hash under Announce messages as time passes
ProvSpecInit == CoreIdle /\ HostIdle /\ AppInit /\ RcvIdle /\ RdIdle /\ ConnInit /\ ChokeInit /\ KbIdle /\ ProvInit /\ DstInit /\ TabInit /\ JanIdle /\ HybInit /\ DqInit /\ BfIdle

ProvSpec == ProvSpecInit /\ [][ProvNext]_vars

\* the run loop of a bootstrap DHT node
DstSpecInit == CoreIdle /\ HostIdle /\ AppInit /\ RcvIdle /\ RdIdle /\ ConnInit /\ ChokeInit /\ KbIdle /\ ProvIdle /\ DstInit /\ TabInit /\ JanIdle /\ HybInit /\ DqInit /\ BfIdle

DstSpec == DstSpecInit /\ [][DstNext]_vars

\* the swarm loop under ConnectPeer commands for any address
TabSpecInit == CoreIdle /\ HostIdle /\ AppInit /\ RcvIdle /\ RdIdle /\ ConnInit /\ ChokeInit /\ KbIdle /\ ProvIdle /\ DstInit /\ TabInit /\ JanIdle /\ HybInit /\ DqInit /\ BfIdle

TabSpec == TabSpecInit /\ [][TabNext]_vars

\* one DHT node with its 60 s pass
JanSpecInit == CoreIdle /\ HostIdle /\ AppInit /\ RcvIdle /\ RdIdle /\ ConnInit /\ ChokeInit /\ KbIdle /\ ProvIdle /\ DstInit /\ TabInit /\ JanInit /\ HybInit /\ DqInit /\ BfIdle

JanSpec == JanSpecInit /\ [][JanNext]_vars

\* the run loop of hybrid discovery
HybSpecInit == CoreIdle /\ HostIdle /\ AppInit /\ RcvIdle /\ RdIdle /\ ConnInit /\ ChokeInit /\ KbIdle /\ ProvIdle /\ DstInit /\ TabInit /\ JanIdle /\ HybInit /\ DqInit /\ BfIdle

HybSpec == HybSpecInit /\ [][HybNext]_vars

\* the run loop of the bootstrap DHT node
DqSpecInit == CoreIdle /\ HostIdle /\ AppInit /\ RcvIdle /\ RdIdle /\ ConnInit /\ ChokeInit /\ KbIdle /\ ProvIdle /\ DstInit /\ TabInit /\ JanIdle /\ HybInit /\ DqInit /\ BfIdle

DqSpec == DqSpecInit /\ [][DqNext]_vars

DqFairSpec == DqSpecInit /\ [][DqNext]_vars /\ DqFairness

\* the operations of Bitfield
BfSpecInit == CoreIdle /\ HostIdle /\ AppInit /\ RcvIdle /\ RdIdle /\ ConnInit /\ ChokeInit /\ KbIdle /\ ProvIdle /\ DstInit /\ TabInit /\ JanIdle /\ HybInit /\ DqInit /\ BfInit

BfSpec == BfSpecInit /\ [][BfNext]_vars

BfLocalSpec == BfSpecInit /\ [][BfLocalNext]_vars

(***************************************************************************)
(* Claims about the Scheduler.                                             *)
(***************************************************************************)
\* the number of currently known peers whose recorded piece set contains i
HoldersOf(s, i) == Cardinality({p \in DOMAIN s.peer_pieces : i \in s.peer_pieces[p]})

\* C6: after any sequence of set_peer_bitfield, peer_has_piece and
\* remove_peer calls, piece_frequency[i] equals, for every i < total_pieces,
\* the number of known peers whose recorded piece set contains i.
C6_FrequencyConsistency ==
    \A i \in 0..(sch.total_pieces - 1) : sch.piece_frequency[i] = HoldersOf(sch, i)

\* C7: in RandomFirst and RareFirst modes generate_requests(k) returns at
\* most k requests and their piece indices are pairwise distinct.
C7_AtMostKDistinct ==
    (genCall.made /\ sch.mode \in {"RandomFirst", "RareFirst"}) =>
        /\ Len(genCall.result) <= genCall.k
        /\ \A a, b \in 1..Len(genCall.result) :
              a # b => genCall.result[a].piece_index # genCall.result[b].piece_index

\* C7 witness: a call with k = 2 that returned two requests, to two peers
\* that both hold both requested pieces
C7_Witness ==
    /\ genCall.made
    /\ genCall.k = 2
    /\ sch.mode \in {"RandomFirst", "RareFirst"}
    /\ Len(genCall.result) = 2
    /\ \A a \in 1..2 : \A q \in DOMAIN sch.peer_pieces :
          genCall.result[a].piece_index \in sch.peer_pieces[q]
    /\ Cardinality(DOMAIN sch.peer_pieces) = 2

(***************************************************************************)
(* Claims about the embedded bootstrap service.                            *)
(***************************************************************************)
\* the state changes the lifecycle allows; Error is left through stop() only
AllowedTransitions ==
    {<<"Stopped", "Starting">>, <<"Starting", "Running">>, <<"Starting", "Error">>,
     <<"Running", "Stopping">>, <<"Stopping", "Stopped">>, <<"Stopping", "Error">>}

C8_Step ==
    /\ svc'.state # svc.state =>
          \/ <<svc.state.tag, svc'.state.tag>> \in AllowedTransitions
          \/ /\ svc.state.tag = "Error"
             /\ svc'.state.tag = "Stopping"
             /\ svcRet'.op = "stop"
    /\ (svcPc = "idle" /\ svcRet' # svcRet /\ svcRet'.op = "start"
            /\ svc.state.tag # "Stopped") =>
          /\ svc' = svc
          /\ svcPc' = "idle"
          /\ svcRet'.res = "Err"

\* C8: the service state changes only along Stopped->Starting,
\* Starting->Running, Starting->Error, Running->Stopping, Stopping->Stopped
\* and Stopping->Error, Error is left only through stop(), and start() called
\* in any state other than Stopped fails and leaves the state unchanged.
C8_Lifecycle == [][C8_Step]_vars

\* C8 witness: start() was called on a service in state Error and refused
C8_Witness ==
    /\ svcRet.op = "start" /\ svcRet.res = "Err" /\ svcRet.from = "Error"
    /\ svc.state.tag = "Error"
    /\ svcPc = "idle"

C9_Outcome ==
    /\ (svcPc = "idle" /\ svcRet.op = "start" /\ svcRet.from = "Stopped") =>
          \/ svcRet.res = "Ok" /\ svc.state.tag = "Running" /\ svc.bound_ports
          \/ svcRet.res = "Err" /\ svc.state.tag = "Error"
                /\ svc.state.msg \in {"start failed", "start timeout"}
    /\ (svcRet.op = "get_status" /\ svcRet.from = "Stopped") =>
          \/ svcRet.res = "Ok" /\ svcRet.status = "running"
          \/ svcRet.res = "Err"
                /\ svcRet.status \in {"error: start failed", "error: start timeout"}

\* C9: every start() made in state Stopped ends, either returning BoundPorts
\* with the state Running, or (start-up failed or passed its deadline) with
\* the state Error(msg); a get_status() issued next reports that same state.
C9_StartEnds == [](C9_Outcome) /\ ((svcPc \in StartStages) ~> (svcPc = "idle"))

\* C9 witness: get_status() after a start() that ran into its deadline
C9_Witness ==
    /\ svcRet.op = "get_status" /\ svcRet.from = "Stopped" /\ svcRet.res = "Err"
    /\ svcRet.status = "error: start timeout"

C10_Outcome ==
    (svcPc = "idle" /\ svcRet.op = "stop" /\ svcRet.from # "Stopped") =>
        /\ svcRet.res = "Ok"
        /\ svc.state.tag = "Stopped"
        /\ ~svc.dht_task /\ ~svc.relay_task /\ ~svc.stats_task /\ ~svc.mdns_task
        /\ ~svc.dht_handle
        /\ ~svc.bound_ports

\* C10: stop() called in any state other than Stopped ends with the state
\* Stopped, also when the shutdown passed its 3 s deadline: the tasks, the
\* DHT handle and the bound ports are then cleared all the same.
C10_StopEnds == [](C10_Outcome) /\ ((svcPc = "stop_shutdown") ~> (svcPc = "idle"))

\* C10 witness: a stop() of a running service has returned
C10_Witness ==
    /\ svcPc = "idle" /\ svcRet.op = "stop" /\ svcRet.from = "Running"
    /\ svc.state.tag = "Stopped"

(***************************************************************************)
(* Claims about the multi-stream sender.                                   *)
(***************************************************************************)
\* C1: acknowledged_bytes grows by a block's size only when the BACK marker
\* of that block's stream was received, so it never exceeds the bytes of the
\* blocks whose ACK wait ended with BACK; a timeout or another reply adds
\* nothing.
C1_AckOnlyOnBack == snd.bytes_acknowledged <= BackedBytes(snd, task)

(***************************************************************************)
(* Claims about the PieceManager.                                          *)
(***************************************************************************)
\* the call just made was write_piece(i, data) with data of another length
\* than piece i or with another SHA-256 than recorded for piece i
C2_BadWrite ==
    /\ pmRet'.op = "write_piece"
    /\ pmRet'.index \in DOMAIN pmo.pieces
    /\ \/ pmRet'.data.len # USize(0, pmo.pieces[pmRet'.index].length)
       \/ Sha256(pmRet'.data) # pmo.pieces[pmRet'.index].hash

C2_Step ==
    C2_BadWrite =>
        /\ ~pmRet'.ok
        /\ (pmRet'.index \in pmo'.my_bitfield) = (pmRet'.index \in pmo.my_bitfield)
        /\ pmFile' = pmFile

\* C2: write_piece(i, data) returns an error and leaves bit i of the local
\* Bitfield and the target file unchanged whenever data's length differs
\* from piece i's length or SHA-256(data) differs from piece i's hash.
C2_RejectsBadPiece == [][PmWritePiece => C2_Step]_vars

\* C2 witness: with a save path set and piece 0 on disk, a write_piece with
\* bytes of the right length and the wrong hash has returned an error
C2_Witness ==
    /\ pmo.save_path
    /\ pmFile.exists
    /\ pmRet.op = "write_piece" /\ ~pmRet.ok
    /\ pmRet.index \in DOMAIN pmo.pieces
    /\ pmRet.index \notin pmo.my_bitfield
    /\ pmRet.data.len = USize(0, pmo.pieces[pmRet.index].length)
    /\ Sha256(pmRet.data) # pmo.pieces[pmRet.index].hash

(***************************************************************************)
(* Claims about the GridSwarm.                                             *)
(***************************************************************************)
\* this step sent SwarmEvent::TransferComplete
C3_Emitted == sw'.transfer_complete > sw.transfer_complete

\* this step set the last unset bit of the PieceManager's Bitfield
C3_BecameFull == ~PieceManager_is_complete(pm) /\ PieceManager_is_complete(pm')

\* C3: the swarm emits TransferComplete if and only if the PieceManager's
\* Bitfield has just become full: it is emitted by the step that verifies
\* and writes the last missing piece, and by no other step.
C3_CompleteIffFull == [][C3_Emitted <=> C3_BecameFull]_vars

\* C4: for one download the swarm emits exactly one TransferComplete, so at
\* no time more than one, however many Piece messages it receives.
C4_CompleteOnce == sw.transfer_complete <= 1

\* remote M has delivered bytes of the right length and the wrong hash for
\* piece i of the started download, while L is connected, is in the
\* connection table and is recorded by the scheduler, under its table key,
\* as holding piece i
C5_BadFromM(i) ==
    /\ sw.started
    /\ i \in net.answered_bad
    /\ sess["L"].status = "live"
    /\ PeerKey("L") \in DOMAIN sw.peers
    /\ PeerKey("L") \in DOMAIN sw.scheduler.peer_pieces
    /\ i \in sw.scheduler.peer_pieces[PeerKey("L")]

\* C5: if peer M delivers a Piece of the correct length whose SHA-256 does
\* not match while another connected peer L holds that piece, the swarm
\* eventually requests the piece again and marks it complete from L's data
\* (stated for piece 0, which every file has).
C5_RecoversFromL == C5_BadFromM(0) ~> (0 \in pm.my_bitfield)

(***************************************************************************)
(* Claims about the bootstrap service's ports.                             *)
(***************************************************************************)
\* the port is within configured+1..configured+10 or was assigned by the OS
InFallbackRange(port, configured) ==
    \/ port \in (configured + 1)..(configured + PortFallbackRange)
    \/ port \in OsPorts

\* ports 6881, 6882 and 6883 are held by other programs as TCP listeners
\* (the protocol find_available_port probes), instance i is configured with
\* them, and no other instance has been started
C11_Scenario(i) ==
    /\ ConfiguredPorts \subseteq host.ext_tcp
    /\ inst[i].cfg.dht_port = DefaultDhtPort
    /\ \A j \in Instances \ {i} : inst[j].ret = "none"

\* C11: with ports 6881, 6882 and 6883 already in use and a configuration of
\* dht_port 6881, quic_port 6882, stats_port 6883, start() succeeds, the
\* state becomes Running, and each returned port differs from its configured
\* value and is within configured+1..configured+10 or OS-assigned.
C11_PortCollision ==
    \A i \in Instances :
        (C11_Scenario(i) /\ inst[i].ret \in {"Ok", "Err"}) =>
            /\ inst[i].ret = "Ok"
            /\ inst[i].state = "Running"
            /\ inst[i].returned.dht_port # inst[i].cfg.dht_port
            /\ inst[i].returned.quic_port # inst[i].cfg.quic_port
            /\ inst[i].returned.stats_port # inst[i].cfg.stats_port
            /\ InFallbackRange(inst[i].returned.dht_port, inst[i].cfg.dht_port)
            /\ InFallbackRange(inst[i].returned.quic_port, inst[i].cfg.quic_port)
            /\ InFallbackRange(inst[i].returned.stats_port, inst[i].cfg.stats_port)

\* C12: starting two service instances on the same host with the same
\* dht_port = P yields two distinct bound DHT ports, each of them in
\* {P, ..., P+10} or OS-assigned (stated for P = 6881 on a host whose other
\* programs hold no port).
C12_TwoInstances ==
    \A i, j \in Instances :
        (/\ i # j
         /\ host.ext_tcp = {} /\ host.ext_udp = {}
         /\ inst[i].cfg.dht_port = DefaultDhtPort
         /\ inst[j].cfg.dht_port = DefaultDhtPort
         /\ inst[i].ret \in {"Ok", "Err"} /\ inst[j].ret \in {"Ok", "Err"}) =>
            /\ inst[i].ret = "Ok" /\ inst[j].ret = "Ok"
            /\ inst[i].returned.dht_port # inst[j].returned.dht_port
            /\ \A k \in {i, j} :
                  \/ inst[k].returned.dht_port = inst[k].cfg.dht_port
                  \/ InFallbackRange(inst[k].returned.dht_port, inst[k].cfg.dht_port)

(***************************************************************************)
(* Claims about the bootstrap configuration.                               *)
(***************************************************************************)
\* max_relay_sessions lies in [1, 1000]
C13_InRange(c) == c.max_relay_sessions >= 1 /\ c.max_relay_sessions <= 1000

\* a command given a configuration outside the range returns an error and
\* leaves the slot as it was
C13_Step ==
    ((AppStartEmbedded \/ AppUpdateConfig) /\ ~C13_InRange(app'.ret.cfg)) =>
        /\ app'.ret.res = "Err"
        /\ app'.slot = app.slot

\* no service holds a configuration outside the range, in state Running or
\* in any other
C13_Held ==
    app.slot # <<>> => C13_InRange(app.slot[1].config)

C14_Successful ==
    /\ snd.phase = "returned"
    /\ snd.result.ok
    /\ \A n \in DOMAIN task : task[n].ack = "BACK"

\* C14: across a successful multi-stream transfer the acknowledged_bytes
\* values carried by successive MultiStreamProgress events never decrease.
C14_AckMonotonic ==
    C14_Successful =>
        \A a, b \in 1..Len(snd.events) :
            a < b => snd.events[a].acknowledged_bytes <= snd.events[b].acknowledged_bytes

(***************************************************************************)
(* Claims about the multi-stream receiver.                                 *)
(***************************************************************************)
\* C15: the multi-stream receiver never writes a byte at a file position at
\* or beyond the manifest's file_size: every block it writes satisfies
\* offset + size <= file_size.
C15_NoWritePastFileSize ==
    /\ \A h \in rcv.writes : h.offset + h.size <= rcv.manifest.file_size
    /\ rcv.file_len <= rcv.manifest.file_size

\* send_file has returned after some block task ended in an error
C16_SenderBlockFailed ==
    /\ snd.phase = "returned"
    /\ task # <<>>
    /\ \E n \in DOMAIN task : ~task[n].result.ok

\* receive_file has returned with fewer than total_blocks distinct blocks written
C16_ReceiverBlocksMissing ==
    /\ rcv.phase = "returned"
    /\ rcv.manifest.job_id_matches
    /\ Cardinality(rcv.received_blocks) < rcv.manifest.total_blocks

\* the receiver's half of C16: receive_file returns an error when fewer than
\* total_blocks distinct blocks were written
C16_ReceiverReports == C16_ReceiverBlocksMissing => rcv.result = "Err"

\* C16: a multi-stream transfer in which some block was not delivered does
\* not report success: send_file, when a block stream failed, and
\* receive_file, when fewer than total_blocks distinct blocks were written,
\* return an error to their caller.
C16_FailureSurfaced ==
    /\ C16_SenderBlockFailed => ~snd.result.ok
    /\ C16_ReceiverReports

(***************************************************************************)
(* Claims about the file sender.                                           *)
(***************************************************************************)
\* C17: read_block_owned(b), whether served from the memory map or from the
\* buffered fallback, either returns exactly b.size bytes starting at
\* b.offset or fails; it never returns a buffer of any other length.
C17_ExactOrFail ==
    (rdr.call.made /\ rdr.call.ok) =>
        /\ rdr.call.len = rdr.call.block.size
        /\ rdr.call.start = rdr.call.block.offset

(***************************************************************************)
(* Claims about the swarm's connection permits.                            *)
(***************************************************************************)
\* a connect or accept attempted while no permit is free creates no session
C18_Step ==
    ((ConnOutbound \/ ConnInbound) /\ conn.permits = 0) => conn'.live = conn.live

C19_Step ==
    ChokeReceive("Interested") =>
        /\ peer'.state.am_choking = FALSE
        /\ peer'.out = Append(peer.out, "Unchoke")

\* a session starts with am_choking = true
C19_StartsChoking == PeerState_new.am_choking = TRUE

\* C19: a peer session starts with am_choking = true, and whenever it
\* receives Interested from the remote peer it sets am_choking = false and
\* sends Unchoke to that peer.
C19_UnchokeOnInterested == C19_StartsChoking /\ [][C19_Step]_vars

(***************************************************************************)
(* Claims about the k-buckets of the DHT routing tables.                   *)
(***************************************************************************)
\* an add_node of either routing table
C20_AddNode(node_id, addr) == KbGridAddNode(node_id, addr) \/ KbBootAddNode(node_id, addr)

\* the bucket with its entry i, one seen longest ago, replaced by the new node
C20_Replaced(node_id, addr) ==
    \E i \in DOMAIN kb.entries :
       /\ \A j \in DOMAIN kb.entries : kb.entries[i].last_seen <= kb.entries[j].last_seen
       /\ kb.now - kb.entries[i].last_seen > 5 * 60
       /\ kb'.entries = [kb.entries EXCEPT ![i] = RoutingEntry(node_id, addr, kb.now)]

\* some entry seen longest ago is more than 5 minutes old
C20_OldestIsStale ==
    \E i \in DOMAIN kb.entries :
       /\ \A j \in DOMAIN kb.entries : kb.entries[i].last_seen <= kb.entries[j].last_seen
       /\ kb.now - kb.entries[i].last_seen > 5 * 60

\* inserting a new node into a bucket of 20
C20_Step ==
    \A node_id \in CallingNodes, addr \in NodeAddrs :
       (/\ C20_AddNode(node_id, addr)
        /\ Len(kb.entries) = 20
        /\ FindNode(kb.entries, node_id) = 0)
       => IF C20_OldestIsStale
          THEN C20_Replaced(node_id, addr)
          ELSE kb'.entries = kb.entries

\* C20: inserting a new node into a k-bucket that already holds 20 entries
\* replaces the least-recently-seen entry if and only if that entry's
\* last_seen is more than 5 minutes old; otherwise the new node is dropped
\* and the bucket is unchanged, so no bucket ever holds more than 20 entries.
C20_BucketOverflow == [](Len(kb.entries) <= 20) /\ [][C20_Step]_vars

(***************************************************************************)
(* Claims about the provider lists of the DHT.                             *)
(***************************************************************************)
\* at most 100 records, at most one record per node_id
C21_Capped ==
    /\ Len(prov.providers) <= 100
    /\ \A i, j \in DOMAIN prov.providers :
          prov.providers[i].node_id = prov.providers[j].node_id => i = j

\* an Announce of either store
C21_Announce(node_id) == ProvBootAnnounce(node_id) \/ ProvGridAnnounce(node_id)

\* the records of a list, as a set
C21_Records(providers) == {providers[i] : i \in DOMAIN providers}

\* when an Announce would take the list past 100, the records kept are 100
\* of the old records and the new one, none older than a record left out
C21_Step ==
    \A node_id \in AnnouncingNodes :
       (/\ C21_Announce(node_id)
        /\ Len(RetainOthers(prov.providers, node_id)) >= 100)
       => LET all  == C21_Records(RetainOthers(prov.providers, node_id))
                         \cup {ProviderInfo(node_id, NewAddr, prov.now)}
              kept == C21_Records(prov'.providers)
          IN /\ kept \subseteq all
             /\ Cardinality(kept) = 100
             /\ \A k \in kept, d \in all \ kept : k.announced_at >= d.announced_at

\* C21: for every info-hash the stored provider list holds at most 100
\* records and at most one record per node_id; when an Announce would take
\* it past 100, the 100 most recently announced records are the ones kept.
C21_ProviderCap == [](C21_Capped) /\ [][C21_Step]_vars

(***************************************************************************)
(* Claims about the stats counters of the bootstrap DHT node.              *)
(***************************************************************************)
\* no counter is smaller after a step than before it
C22_Step ==
    /\ dstat'.stats.dht_messages_received >= dstat.stats.dht_messages_received
    /\ dstat'.stats.dht_messages_sent >= dstat.stats.dht_messages_sent
    /\ dstat'.stats.nodes_in_routing_table >= dstat.stats.nodes_in_routing_table
    /\ dstat'.stats.providers_stored >= dstat.stats.providers_stored

\* C22: within one run of the DHT node each stats counter - messages
\* received, messages sent, routing table size (nodes_in_routing_table) and
\* providers_stored - never decreases.
C22_CountersMonotonic == [][C22_Step]_vars

(***************************************************************************)
(* Claims about the order of the messages a peer session acts on.          *)
(***************************************************************************)
\* the events a session sends when it acts on a payload message
C23_PayloadEvents == {"BitfieldReceived", "HaveReceived", "PieceReceived"}

\* a session is known by the id of Peer::new until handle_message has taken a
\* Handshake with a matching info_hash: an event under that id was sent
\* before any such Handshake
C23_BeforeHandshake(e) == \E a \in Addrs : e.peer_id = PeerKey(a)

\* C23: a peer session acts on messages only in the order of the session
\* state machine: it sends its own Handshake first, processes nothing before
\* a Handshake with a matching info_hash has been received, and the first
\* message it processes after the Handshake is a Bitfield; a message
\* arriving out of this order is a protocol violation that moves the session
\* to error/closed instead of being acted upon.
C23_HandshakeFirst ==
    \A i \in DOMAIN evq :
       evq[i].type \in C23_PayloadEvents => ~C23_BeforeHandshake(evq[i])

(***************************************************************************)
(* Claims about requests that are not answered.                            *)
(***************************************************************************)
\* the swarm issued a Request for piece i and keeps i in its pending set
C24_Pending(i) == i \in sw.scheduler.pending_pieces

\* C24: a piece for which the swarm issued a Request and for which no valid
\* Piece arrived within 30 s is removed from the pending set and becomes
\* eligible again for generate_requests (stated for piece 0, which every
\* file has: as the swarm loop keeps taking its ticks and events, piece 0
\* does not stay pending for ever).
C24_StaleRequestReturns == C24_Pending(0) ~> ~C24_Pending(0)

(***************************************************************************)
(* Claims about the pending map of the PieceManager.                       *)
(***************************************************************************)
\* C25: at every point in any sequence of request_piece, complete_request,
\* cleanup_stale_requests, write_piece and mark_completed, no piece index is
\* simultaneously present in PieceManager's pending map and marked in its
\* Bitfield.
C25_PendingXorMarked == DOMAIN pmo.pending_pieces \cap pmo.my_bitfield = {}

(***************************************************************************)
(* Claims about the Endgame mode.                                          *)
(***************************************************************************)
\* the peer of address a is connected, and the scheduler has recorded, under
\* its key of the connection table, that it holds piece i
C26_ConnectedHolder(a, i) ==
    /\ sess[a].status = "live"
    /\ PeerKey(a) \in DOMAIN sw.peers
    /\ PeerKey(a) \in DOMAIN sw.scheduler.peer_pieces
    /\ i \in sw.scheduler.peer_pieces[PeerKey(a)]

\* a Request for piece i is on its way to the peer of address a or reached it
C26_Requested(a, i) ==
    \/ i \in net.asked[a]
    \/ \E k \in DOMAIN sess[a].cmds :
          sess[a].cmds[k] = [type |-> "Request", piece_index |-> i]

\* after schedule_requests in Endgame mode every connected holder of a
\* missing piece has been sent a Request for it
C26_Step ==
    (SwTick /\ sw.scheduler.mode = "Endgame") =>
        \A i \in 0..(sw.scheduler.total_pieces - 1), a \in Addrs :
           (i \notin sw.scheduler.my_pieces /\ C26_ConnectedHolder(a, i))
              => C26_Requested(a, i)'

\* C26: in Endgame mode every still-missing piece is requested from every
\* connected peer whose Bitfield has that piece, not from a single peer only.
C26_EndgameAsksAll == [][C26_Step]_vars

(***************************************************************************)
(* Claims about a peer that delivers a bad Piece.                          *)
(***************************************************************************)
\* event e reports a Piece of the right length whose SHA-256 does not match
C27_BadPiece(e) ==
    /\ e.type = "PieceReceived"
    /\ e.piece_index \in DOMAIN pm.pieces
    /\ e.data.len = USize(0, pm.pieces[e.piece_index].length)
    /\ Sha256(e.data) # pm.pieces[e.piece_index].hash

\* the peer of address a is closed, or told to close, and has no entry in
\* the connection table
C27_Closed(a) ==
    /\ \/ sess[a].status = "closed"
       \/ \E k \in DOMAIN sess[a].cmds : sess[a].cmds[k].type = "Disconnect"
    /\ \A key \in DOMAIN sw.peers : sw.peers[key] # a

\* handling the event of a bad Piece closes the peer that delivered it
C27_Step ==
    (SwHandleEvent /\ C27_BadPiece(Head(evq))) =>
        \A a \in Addrs : sess[a].peer_id = Head(evq).peer_id => C27_Closed(a)'

\* C27: when a peer delivers a Piece that fails hash verification, that
\* peer's session is closed and its entry is removed from the connection
\* table, while the swarm loop and every other peer session keep running.
C27_BadPieceClosesPeer == [][C27_Step]_vars

(***************************************************************************)
(* Claims about a silent remote peer.                                      *)
(***************************************************************************)
\* the seconds that have passed at least since the last inbound message of
\* a running session: the keep-alive interval fires at once and then every
\* 30 s, so n ticks take 30 * (n - 1) s
C28_SilentFor == IF peer.silent = 0 THEN 0 ELSE KeepaliveSecs * (peer.silent - 1)

\* C28: a peer session that receives no inbound message for 2 x keepalive
\* (60 s) is disconnected: its message loop ends and a Disconnected event is
\* emitted (so no message loop is running with more than 60 s of silence
\* behind it).
C28_SilentPeerDisconnected == C28_SilentFor <= 2 * KeepaliveSecs

(***************************************************************************)
(* Claims about repeated ConnectPeer commands.                             *)
(***************************************************************************)
\* the peer tasks running for addr
C29_Sessions(t, addr) ==
    {n \in DOMAIN t.tasks : t.tasks[n].addr = addr /\ t.tasks[n].status = "live"}

\* a step that starts a peer task or takes a permit is not for an address
\* that has a running peer task
C29_Step ==
    \A addr \in Addrs :
        C29_Sessions(tab, addr) # {} =>
            /\ ~(\E n \in DOMAIN tab'.tasks : n > Len(tab.tasks) /\ tab'.tasks[n].addr = addr)
            /\ (tab'.last = "connected" /\ tab'.tasks[Len(tab'.tasks)].addr = addr
                   => tab'.permits >= tab.permits)

\* C29: the swarm never holds two sessions for the same (addr, peer_id): a
\* ConnectPeer command for an address that already has a live session
\* creates no second session and takes no connection permit.
C29_NoSecondSession == [][C29_Step]_vars

(***************************************************************************)
(* Claims about the peer ids of events and of table entries.               *)
(***************************************************************************)
\* the events of a peer session the swarm acts on under their peer_id
C30_Events ==
    {"BitfieldReceived", "HaveReceived", "PieceReceived", "RequestReceived", "Disconnected"}

\* the peer ids the scheduler picks its targets from
C30_Targets == DOMAIN sw.scheduler.peer_pieces

\* C30: every event a peer session sends to the swarm carries the peer_id
\* under which the swarm registered that session in its connection table,
\* so every event waiting in the channel names a table entry and every
\* peer the scheduler can pick as a target is a table entry.
C30_EventsCarryTableKey ==
    /\ \A i \in DOMAIN evq : evq[i].type \in C30_Events => evq[i].peer_id \in DOMAIN sw.peers
    /\ C30_Targets \subseteq DOMAIN sw.peers

(***************************************************************************)
(* Claims about Requests and the choke flag.                               *)
(***************************************************************************)
\* the swarm loop has just sent the peer task of a one more Request
C31_Dispatched(a) ==
    /\ Len(sess'[a].cmds) > Len(sess[a].cmds)
    /\ sess'[a].cmds[Len(sess'[a].cmds)].type = "Request"

\* the table entry of a's session says that the peer is not choking
C31_NotChoking(a) ==
    \E k \in DOMAIN sw.peers : sw.peers[k] = a /\ ~sw.peer_choking[k]

C31_Step == \A a \in Addrs : C31_Dispatched(a) => C31_NotChoking(a)

\* C31: the swarm dispatches a Request to a peer, and marks that piece
\* pending, only while that peer is not choking it (peer_choking is false
\* in that peer's table entry).
C31_RequestOnlyWhenUnchoked == [][C31_Step]_vars

(***************************************************************************)
(* Claims about the 60 s pass of a DHT node.                               *)
(***************************************************************************)
\* no routing entry older than 15 minutes, no provider record older than
\* an hour, no empty provider list
C32_Clean ==
    /\ \A i \in DOMAIN jan.table : jan.now - jan.table[i].last_seen <= StaleAge
    /\ \A h \in DOMAIN jan.providers :
          /\ jan.providers[h] # <<>>
          /\ \A i \in DOMAIN jan.providers[h] :
                jan.now - jan.providers[h][i].announced_at <= ProviderAge

\* C32: after each janitor pass (every 60 s) of a DHT node, no routing
\* entry has a last_seen older than 15 minutes, no provider record is older
\* than 1 hour, and no info-hash maps to an empty provider list.
C32_JanitorPass == jan.last = "pass" => C32_Clean

\* the same of the bootstrap node alone
C32_BootstrapPass == jan.impl = "bootstrap" /\ jan.last = "pass" => C32_Clean

(***************************************************************************)
(* Claims about the PeerDiscovered events of the routing table.            *)
(***************************************************************************)
\* the nodes of a table
C33_Nodes(table) == {table[i].node_id : i \in DOMAIN table}

\* the nodes the step has inserted
C33_Inserted == C33_Nodes(jan'.table) \ C33_Nodes(jan.table)

\* an add_node that inserts a node sends its one event, and an add_node
\* that refreshes an entry sends none
C33_Step ==
    jan'.last = "add_node" =>
        IF C33_Inserted = {} THEN jan'.emitted = <<>>
        ELSE \E n \in C33_Inserted : jan'.emitted = <<PeerDiscoveredEvent(n, "a")>>

\* C33: every insertion of a new entry into the DHT routing table emits
\* exactly one PeerDiscovered event carrying that node's id prefix and
\* address with source "dht", and refreshing an already present entry
\* emits none.
C33_InsertionEmitsOne == [][C33_Step]_vars

\* the same of the bootstrap node alone
C33_BootstrapEmitsOne == [][jan.impl = "bootstrap" => C33_Step]_vars

(***************************************************************************)
(* Claims about the peer cache of hybrid discovery.                        *)
(***************************************************************************)
\* the step has shown the cache a peer it holds
C34_ReObserved(peer_id) ==
    /\ peer_id \in DOMAIN hyb.peers
    /\ hyb'.last \in {"poll_mdns", "peer_found"}
    /\ peer_id \in hyb'.seen

C34_Step ==
    \A peer_id \in HybPeerIds :
        C34_ReObserved(peer_id) =>
            peer_id \in DOMAIN hyb'.peers /\ hyb'.peers[peer_id].last_seen = hyb'.now

\* C34: in hybrid discovery every re-observation of an already cached
\* peer, whether it comes from an mDNS poll or from a DHT PeerFound event,
\* refreshes that peer's last_seen (so a peer that is re-seen at least once
\* every 5 minutes is never evicted).
C34_ReObservationRefreshes == [][C34_Step]_vars

\* the ids the filter of the janitor meets: last_seen more than 5 minutes old
C35_Stale == {id \in DOMAIN hyb.peers : hyb.now - hyb.peers[id].last_seen > HybTimeout}

\* the peers the events of the step name as lost, one entry for each event
C35_Lost == {i \in DOMAIN hyb'.emitted : hyb'.emitted[i].type = "PeerLost"}

C35_Step ==
    hyb'.last = "cleanup" =>
        /\ DOMAIN hyb'.peers = DOMAIN hyb.peers \ C35_Stale
        /\ \A id \in DOMAIN hyb'.peers : hyb'.peers[id] = hyb.peers[id]
        /\ Len(hyb'.emitted) = Cardinality(C35_Stale)
        /\ \A id \in C35_Stale :
              Cardinality({i \in C35_Lost : hyb'.emitted[i].peer_id = id}) = 1

\* C35: each hybrid-discovery janitor pass (every 60 s) removes exactly the
\* cached peers whose last_seen is more than 5 minutes old and emits
\* exactly one PeerLost for each removed peer.
C35_JanitorEvictsStale == [][C35_Step]_vars

\* a pass has evicted one peer, told of it, and kept another that was last
\* seen 5 minutes ago to the second
C35_Witness ==
    /\ hyb.last = "cleanup"
    /\ Len(hyb.emitted) = 1
    /\ \E id \in DOMAIN hyb.peers : hyb.now - hyb.peers[id].last_seen = HybTimeout

(***************************************************************************)
(* Claims about the run loop of the bootstrap DHT node.                    *)
(***************************************************************************)
\* C36: the bootstrap DHT node's event loop never blocks indefinitely
\* inside add_node: an insertion that waits on the full PeerDiscovered
\* channel gets on, and a Shutdown command that was sent is processed or
\* the task is gone.
C36_LoopNeverStuck ==
    /\ dq.blocked ~> ~dq.blocked
    /\ dq.queued ~> dq.status # "running"

C38_Over(n) ==
    /\ tab.tasks[n].status = "closed"
    /\ ~\E i \in DOMAIN tab.evq : tab.evq[i].task = n

\* C38: for each peer session the swarm emits exactly one PeerDisconnected
\* event, whether the session ends through a DisconnectPeer command or
\* because the peer task terminated on its own: never more than one, and
\* one once the session is over.
C38_OnePeerDisconnected ==
    \A n \in DOMAIN tab.tasks :
        /\ tab.out[n] <= 1
        /\ C38_Over(n) => tab.out[n] = 1

(***************************************************************************)
(* Claims about Bitfield.                                                  *)
(***************************************************************************)
\* the bit at position p of the byte vector, counted from the first bit of
\* the first byte
C39_BitAt(b, p) == BitOf(b.bytes[(p \div 8) + 1], 7 - (p % 8))

\* C39: for every Bitfield produced by new, full, set/mark/unmark, merge or
\* from_bytes, all bits of the last byte at positions at or beyond length
\* are zero.
C39_TrailingBitsZero ==
    \A p \in 0..(8 * Len(bf.bits.bytes) - 1) :
        p >= bf.bits.length /\ (p \div 8) + 1 = Len(bf.bits.bytes) => C39_BitAt(bf.bits, p) = 0

(***************************************************************************)
(* Claims about the window of the sender's SpeedCalculator.                *)
(***************************************************************************)
\* C40: the byte totals pushed into the sender's SpeedCalculator window
\* are non-decreasing in insertion order even when several block tasks
\* complete concurrently, so the subtraction end_bytes - start_bytes in
\* get_speed never underflows.
C40_WindowNonDecreasing ==
    \A i, j \in DOMAIN snd.window : i <= j => snd.window[i] <= snd.window[j]

====
